---- MODULE Spec2Model ----
(***************************************************************************)
(* Data Formulator (Next.js migration): the table/chart store with its     *)
(* cascade delete, the table lineage traversal, and the Vega-Lite spec     *)
(* assembler with its chart template registry.                             *)
(***************************************************************************)
EXTENDS Integers, Sequences, FiniteSets, TLC

VARIABLES
    tables,           \* state.tables: sequence of DictTable
    charts,           \* state.charts: sequence of Chart
    focusedChartId,   \* state.focusedChartId (NoId = undefined)
    focusedTableId,   \* state.focusedTableId (NoId = undefined)
    nextTableId,      \* ids handed to tables so far (table ids are unique names)
    nextChartId,      \* ids handed to charts so far (chart-<timestamp> ids)
    lastOp,           \* history: the deleting reducer that ran last, its payload, the tables it removed
    trav,             \* the lineage traversal in progress: its position, its chain so far
    registry,         \* the chart template catalogue: the objects getChartTemplate hands out
    asm,              \* the assembleVegaChart call in progress: its arguments, its outcome
    infer,            \* the type inference in progress: the column's values, the types inferred
    thumb,            \* the thumbnail of a chart being rendered: its rows, its data payload
    sse,              \* the SSE client: its fields, the EventSources it made, its pending timers
    api               \* the APIClient request under way: its method, what fetch gave, what the caller got

storeVars == <<tables, charts, focusedChartId, focusedTableId, nextTableId, nextChartId, lastOp>>

lineageVars == <<trav>>

asmVars == <<registry, asm>>

inferVars == <<infer>>

sideVars == <<thumb, sse, api>>

vars == <<storeVars, lineageVars, asmVars, inferVars, sideVars>>

\* ------------------------------------------------------------------ bounds
MaxTables == 3
MaxCharts == 2
MaxLineageTables == 3

NoId == 0

Range(s) == {s[i] : i \in DOMAIN s}

\* ----------------------------------------------- JSON values of a chart spec
\* A JSON object is a function from the paths of its nodes (key sequences from
\* the root; array indices are the keys "0", "1", ...) to what sits there.
Obj == [k |-> "obj", v |-> <<>>]

Arr == [k |-> "arr", v |-> <<>>]

Null == [k |-> "null", v |-> <<>>]

Undefined == [k |-> "undefined", v |-> <<>>]

Str(s) == [k |-> "str", v |-> <<s>>]

Num(s) == [k |-> "num", v |-> <<s>>]

Bool(s) == [k |-> "bool", v |-> <<s>>]

\* an array of primitive values (a sort list, a scale domain, legend values)
List(vals) == [k |-> "list", v |-> vals]

\* the object with the nodes given as <<path, node>> pairs
Tree(pairs) == [p \in {x[1] : x \in pairs} |-> (CHOOSE x \in pairs : x[1] = p)[2]]

EmptyObject == Tree({<< <<>>, Obj >>})

IsPrefix(p, q) == Len(p) <= Len(q) /\ SubSeq(q, 1, Len(p)) = p

\* obj[p[1]][p[2]]... is there
Has(t, p) == p \in DOMAIN t

\* Object.keys(obj[p])
KeysAt(t, p) == {q[Len(p) + 1] : q \in {r \in DOMAIN t : IsPrefix(p, r) /\ Len(r) > Len(p)}}

\* the value at p, as an object of its own
SubTree(t, p) ==
    [r \in {SubSeq(q, Len(p) + 1, Len(q)) : q \in {x \in DOMAIN t : IsPrefix(p, x)}}
        |-> t[p \o r]]

\* delete obj[p]
Prune(t, p) == [q \in {x \in DOMAIN t : ~IsPrefix(p, x)} |-> t[q]]

\* obj[p] = sub
Graft(t, p, sub) ==
    [q \in {x \in DOMAIN t : ~IsPrefix(p, x)} \cup {p \o r : r \in DOMAIN sub}
        |-> IF IsPrefix(p, q) THEN sub[SubSeq(q, Len(p) + 1, Len(q))] ELSE t[q]]

\* obj[p] = a primitive value
Put(t, p, node) == Graft(t, p, Tree({<< <<>>, node >>}))

\* obj[p] = Object.fromEntries([...Object.entries(obj[p] || {}), ...Object.entries(enc)])
\* every key of enc replaces the key of the same name, the other keys stay
MergeAt(t, p, enc) ==
    LET keys == KeysAt(enc, <<>>)
        base == IF Has(t, p) /\ t[p].k = "obj" THEN t ELSE Graft(t, p, EmptyObject)
        kept == {x \in DOMAIN base : ~\E key \in keys : IsPrefix(p \o <<key>>, x)}
    IN  [q \in kept \cup {p \o r : r \in DOMAIN enc \ {<<>>}}
            |-> IF q \in kept THEN base[q] ELSE enc[SubSeq(q, Len(p) + 1, Len(q))]]

\* ------------------------------------------------------- chart templates
\* the channels the templates and the encoding maps name
Channels == {"x", "y", "x2", "y2", "color", "opacity", "size", "shape",
             "column", "row", "detail", "group", "radius"}

NoPaths == [c \in Channels |-> <<>>]

\* paths: channel -> ['encoding', channel] for the channels listed
EncodingPaths(chs) ==
    [c \in Channels |-> IF c \in Range(chs) THEN << <<"encoding", c>> >> ELSE <<>>]

\* template: { mark: <mark>, encoding: {} }
MarkTemplate(mark) ==
    Tree({ << <<>>, Obj >>, << <<"mark">>, Str(mark) >>, << <<"encoding">>, Obj >> })

\* a chart whose every channel is written at encoding.<channel>
PlainChart(chart, mark, chs) ==
    [chart |-> chart, template |-> MarkTemplate(mark), channels |-> chs,
     paths |-> EncodingPaths(chs), postProcessor |-> "none"]

AutoChart ==
    [chart |-> "Auto", template |-> EmptyObject, channels |-> <<>>,
     paths |-> NoPaths, postProcessor |-> "none"]

TableChart ==
    [chart |-> "Table", template |-> EmptyObject, channels |-> <<>>,
     paths |-> NoPaths, postProcessor |-> "none"]

LinearRegression ==
    [chart |-> "Linear Regression",
     template |-> Tree({
        << <<>>, Obj >>,
        << <<"layer">>, Arr >>,
        << <<"layer", "0">>, Obj >>,
        << <<"layer", "0", "mark">>, Str("circle") >>,
        << <<"layer", "0", "encoding">>, Obj >>,
        << <<"layer", "0", "encoding", "x">>, Obj >>,
        << <<"layer", "0", "encoding", "y">>, Obj >>,
        << <<"layer", "0", "encoding", "color">>, Obj >>,
        << <<"layer", "0", "encoding", "size">>, Obj >>,
        << <<"layer", "1">>, Obj >>,
        << <<"layer", "1", "mark">>, Obj >>,
        << <<"layer", "1", "mark", "type">>, Str("line") >>,
        << <<"layer", "1", "mark", "color">>, Str("red") >>,
        << <<"layer", "1", "transform">>, Arr >>,
        << <<"layer", "1", "transform", "0">>, Obj >>,
        << <<"layer", "1", "transform", "0", "regression">>, Str("field1") >>,
        << <<"layer", "1", "transform", "0", "on">>, Str("field2") >>,
        << <<"layer", "1", "transform", "0", "group">>, Str("field3") >>,
        << <<"layer", "1", "encoding">>, Obj >>,
        << <<"layer", "1", "encoding", "x">>, Obj >>,
        << <<"layer", "1", "encoding", "y">>, Obj >> }),
     channels |-> <<"x", "y", "size", "color", "column">>,
     paths |-> [NoPaths EXCEPT
        !["x"] = << <<"layer", "0", "encoding", "x">>, <<"layer", "1", "encoding", "x">>,
                    <<"layer", "1", "transform", "0", "on">> >>,
        !["y"] = << <<"layer", "0", "encoding", "y">>, <<"layer", "1", "encoding", "y">>,
                    <<"layer", "1", "transform", "0", "regression">> >>,
        !["color"] = << <<"layer", "0", "encoding", "color">> >>,
        !["size"] = << <<"layer", "0", "encoding", "size">> >>],
     postProcessor |-> "none"]

RangedDotPlot ==
    [chart |-> "Ranged Dot Plot",
     template |-> Tree({
        << <<>>, Obj >>,
        << <<"encoding">>, Obj >>,
        << <<"layer">>, Arr >>,
        << <<"layer", "0">>, Obj >>,
        << <<"layer", "0", "mark">>, Str("line") >>,
        << <<"layer", "0", "encoding">>, Obj >>,
        << <<"layer", "0", "encoding", "detail">>, Obj >>,
        << <<"layer", "1">>, Obj >>,
        << <<"layer", "1", "mark">>, Obj >>,
        << <<"layer", "1", "mark", "type">>, Str("point") >>,
        << <<"layer", "1", "mark", "filled">>, Bool("true") >>,
        << <<"layer", "1", "encoding">>, Obj >>,
        << <<"layer", "1", "encoding", "color">>, Obj >> }),
     channels |-> <<"x", "y", "color">>,
     paths |-> [NoPaths EXCEPT
        !["x"] = << <<"encoding", "x">> >>,
        !["y"] = << <<"encoding", "y">> >>,
        !["color"] = << <<"layer", "1", "encoding", "color">> >>],
     postProcessor |-> "Ranged Dot Plot"]

Boxplot ==
    [PlainChart("Boxplot", "boxplot", <<"x", "y", "color", "opacity", "column", "row">>)
        EXCEPT !.postProcessor = "Boxplot"]

\* hconcat[i] of the Pyramid Chart; the right half hides its y axis, the left
\* half reverses its x scale
PyramidHalf(i, left) ==
    { << <<"hconcat", i>>, Obj >>,
      << <<"hconcat", i, "mark">>, Str("bar") >>,
      << <<"hconcat", i, "encoding">>, Obj >>,
      << <<"hconcat", i, "encoding", "y">>, Obj >>,
      << <<"hconcat", i, "encoding", "x">>, Obj >>,
      << <<"hconcat", i, "encoding", "x", "stack">>, Null >>,
      << <<"hconcat", i, "encoding", "color">>, Obj >>,
      << <<"hconcat", i, "encoding", "color", "legend">>, Null >>,
      << <<"hconcat", i, "encoding", "opacity">>, Obj >>,
      << <<"hconcat", i, "encoding", "opacity", "value">>, Num("0.9") >> }
    \cup (IF left
          THEN { << <<"hconcat", i, "encoding", "x", "scale">>, Obj >>,
                 << <<"hconcat", i, "encoding", "x", "scale", "reverse">>, Bool("true") >> }
          ELSE { << <<"hconcat", i, "encoding", "y", "axis">>, Null >> })

PyramidChart ==
    [chart |-> "Pyramid Chart",
     template |-> Tree({
        << <<>>, Obj >>,
        << <<"spacing">>, Num("0") >>,
        << <<"resolve">>, Obj >>,
        << <<"resolve", "scale">>, Obj >>,
        << <<"resolve", "scale", "y">>, Str("shared") >>,
        << <<"hconcat">>, Arr >>,
        << <<"config">>, Obj >>,
        << <<"config", "view">>, Obj >>,
        << <<"config", "view", "stroke">>, Null >>,
        << <<"config", "axis">>, Obj >>,
        << <<"config", "axis", "grid">>, Bool("false") >> }
        \cup PyramidHalf("0", TRUE) \cup PyramidHalf("1", FALSE)),
     channels |-> <<"x", "y", "color">>,
     paths |-> [NoPaths EXCEPT
        !["x"] = << <<"hconcat", "0", "encoding", "x">>, <<"hconcat", "1", "encoding", "x">> >>,
        !["y"] = << <<"hconcat", "0", "encoding", "y">>, <<"hconcat", "1", "encoding", "y">> >>,
        !["color"] = << <<"hconcat", "0", "encoding", "color">>,
                        <<"hconcat", "1", "encoding", "color">> >>],
     postProcessor |-> "Pyramid Chart"]

GroupedBarChart ==
    [chart |-> "Grouped Bar Chart", template |-> MarkTemplate("bar"),
     channels |-> <<"x", "y", "group">>,
     paths |-> [NoPaths EXCEPT
        !["x"] = << <<"encoding", "x">> >>,
        !["y"] = << <<"encoding", "y">> >>,
        !["group"] = << <<"encoding", "xOffset">>, <<"encoding", "color">> >>],
     postProcessor |-> "none"]

DottedLineChart ==
    [chart |-> "Dotted Line Chart",
     template |-> Tree({ << <<>>, Obj >>, << <<"mark">>, Obj >>,
                         << <<"mark", "type">>, Str("line") >>,
                         << <<"mark", "point">>, Bool("true") >>,
                         << <<"encoding">>, Obj >> }),
     channels |-> <<"x", "y", "color", "column", "row">>,
     paths |-> EncodingPaths(<<"x", "y", "color", "column", "row">>),
     postProcessor |-> "none"]

HeatMap ==
    [PlainChart("Heat Map", "rect", <<"x", "y", "color", "column", "row">>)
        EXCEPT !.postProcessor = "Heat Map"]

\* Object.values(CHART_TEMPLATES).flat(): table, scatter, bar, line, table-based, custom
CHART_TEMPLATES == <<
    AutoChart,
    TableChart,
    PlainChart("Scatter Plot", "circle", <<"x", "y", "color", "size", "column", "row">>),
    LinearRegression,
    RangedDotPlot,
    Boxplot,
    PlainChart("Bar Chart", "bar", <<"x", "y", "color", "column", "row">>),
    PyramidChart,
    GroupedBarChart,
    PlainChart("Stacked Bar Chart", "bar", <<"x", "y", "color", "column", "row">>),
    PlainChart("Histogram", "bar", <<"x", "y", "color", "column", "row">>),
    PlainChart("Line Chart", "line", <<"x", "y", "color", "column", "row">>),
    DottedLineChart,
    HeatMap,
    PlainChart("Custom Point", "circle",
               <<"x", "y", "color", "opacity", "size", "shape", "column", "row">>),
    PlainChart("Custom Line", "line",
               <<"x", "y", "color", "opacity", "detail", "column", "row">>),
    PlainChart("Custom Bar", "bar",
               <<"x", "y", "color", "opacity", "size", "shape", "column", "row">>),
    PlainChart("Custom Rect", "rect",
               <<"x", "y", "x2", "y2", "color", "opacity", "column", "row">>),
    PlainChart("Custom Area", "area", <<"x", "y", "x2", "y2", "color", "column", "row">>) >>

\* the value a failed find() gives
NoTemplate ==
    [chart |-> "", template |-> EmptyObject, channels |-> <<>>,
     paths |-> NoPaths, postProcessor |-> "none"]

\* mutant: an unknown chart type falls back to the first template of the catalogue
getChartTemplateOrFirst(reg, chartType) ==
    IF \E i \in DOMAIN reg : reg[i].chart = chartType
    THEN reg[CHOOSE i \in DOMAIN reg :
                /\ reg[i].chart = chartType
                /\ \A j \in DOMAIN reg : reg[j].chart = chartType => i <= j]
    ELSE reg[1]

\* Object.values(CHART_TEMPLATES).flat().find(t => t.chart === chartType)
getChartTemplate(reg, chartType) ==
    IF \E i \in DOMAIN reg : reg[i].chart = chartType
    THEN reg[CHOOSE i \in DOMAIN reg :
                /\ reg[i].chart = chartType
                /\ \A j \in DOMAIN reg : reg[j].chart = chartType => i <= j]
    ELSE NoTemplate

\* getChartTemplate(chartType)?.channels || []
getChartChannels(reg, chartType) == getChartTemplate(reg, chartType).channels

\* ------------------------------------------------- fields, rows, encodings
\* a cell of a working-table row: its JavaScript type and its text
NumCell(s) == [t |-> "num", v |-> s]

StrCell(s) == [t |-> "str", v |-> s]

NullCell == [t |-> "null", v |-> "null"]

\* r[name] of a column the row does not have
UndefCell == [t |-> "undefined", v |-> "undefined"]

\* a cell as a value of the chart spec
CellNode(c) ==
    IF c.t = "null" THEN Null
    ELSE IF c.t = "undefined" THEN Undefined
    ELSE [k |-> c.t, v |-> <<c.v>>]

\* r[name]
CellOf(r, name) == IF name \in DOMAIN r THEN r[name] ELSE UndefCell

\* workingTable.map(r => r[name])
ColumnValues(rows, name) == [i \in DOMAIN rows |-> CellOf(rows[i], name)]

\* [...new Set(values)]: the distinct values, in order of first appearance
RECURSIVE Unique(_)
Unique(s) ==
    IF s = <<>> THEN <<>>
    ELSE LET init == Unique(SubSeq(s, 1, Len(s) - 1))
             last == s[Len(s)]
         IN  IF last \in Range(init) THEN init ELSE Append(init, last)

\* the texts of the modelled values that Number() turns into a finite number
NumericTexts == {"1.5", "3", "5", "7", "10", "2019", "2020", "2021"}

\* the texts of the modelled values that Date.parse() accepts
DateTexts == {"2019", "2020", "2021", "2020-01-01"}

\* the modelled texts in the order Array.prototype.sort() puts them
TextOrder == <<"", "1.5", "10", "2019", "2020", "2020-01-01", "2021", "3", "5", "7",
               "A", "B", "C", "D",
               "R01", "R02", "R03", "R04", "R05", "R06", "R07", "R08",
               "R09", "R10", "R11", "R12", "R13", "R14", "R15", "R16",
               "false", "null", "true", "undefined">>

Rank(text) == CHOOSE i \in DOMAIN TextOrder : TextOrder[i] = text

\* values.sort() of distinct values, as texts
RECURSIVE SortTexts(_)
SortTexts(S) ==
    IF S = {} THEN <<>>
    ELSE LET m == CHOOSE x \in S : \A y \in S : Rank(x) <= Rank(y)
         IN  <<m>> \o SortTexts(S \ {m})

Reverse(s) == [i \in DOMAIN s |-> s[Len(s) + 1 - i]]

\* from how many distinct values on a colour legend is made compact and the
\* scale switched to a twenty-colour scheme
ManyColorValues == 16

\* Type inference utility
getDType(type, values) ==
    IF type = "auto"
    THEN LET nonNullValues ==
                 SelectSeq(values, LAMBDA c : c.t \notin {"null", "undefined"}
                                              /\ ~(c.t = "str" /\ c.v = ""))
             all(P(_)) == \A i \in DOMAIN nonNullValues : P(nonNullValues[i])
             isBool(c) == c.t = "bool" \/ (c.t = "str" /\ c.v \in {"true", "false"})
             isNum(c) == c.t \in {"num", "bool"} \/ (c.t = "str" /\ c.v \in NumericTexts)
             isDate(c) == c.v \in DateTexts
         IN  IF nonNullValues = <<>> THEN "nominal"
             ELSE IF all(isBool) THEN "nominal"
             ELSE IF all(isNum) THEN "quantitative"
             ELSE IF all(isDate) THEN "temporal"
             ELSE "nominal"
    ELSE IF type = "number" THEN "quantitative"
    ELSE IF type = "date" THEN "temporal"
    ELSE "nominal"

\* an EncodingItem; "" stands for a property that is not set
Encoding(fieldID, aggregate, sortBy, sortOrder, stack, scheme) ==
    [fieldID |-> fieldID, aggregate |-> aggregate, sortBy |-> sortBy,
     sortOrder |-> sortOrder, stack |-> stack, scheme |-> scheme]

\* { bin: false }
EmptyEncoding == Encoding("", "", "", "", "", "")

FieldItem(id, name, type, domain, semanticType) ==
    [id |-> id, name |-> name, type |-> type, domain |-> domain,
     semanticType |-> semanticType]

\* the sort lists the encoding shelf stores as JSON text in sortBy
SortByBA == "{\"values\":[\"B\",\"A\"]}"

SortLists == (SortByBA :> <<"B", "A">>)

\* mutant: a field id that names no concept falls back to the first concept
findFieldOrFirst(items, fieldID) ==
    IF fieldID = "" \/ items = <<>> THEN [found |-> FALSE, item |-> FieldItem("", "", "", <<>>, "")]
    ELSE IF \E i \in DOMAIN items : items[i].id = fieldID
    THEN [found |-> TRUE,
          item |-> items[CHOOSE i \in DOMAIN items :
                            /\ items[i].id = fieldID
                            /\ \A j \in DOMAIN items : items[j].id = fieldID => i <= j]]
    ELSE [found |-> TRUE, item |-> items[1]]

\* encoding.fieldID ? conceptShelfItems.find(f => f.id === encoding.fieldID) : undefined
findField(items, fieldID) ==
    IF fieldID # "" /\ \E i \in DOMAIN items : items[i].id = fieldID
    THEN [found |-> TRUE,
          item |-> items[CHOOSE i \in DOMAIN items :
                            /\ items[i].id = fieldID
                            /\ \A j \in DOMAIN items : items[j].id = fieldID => i <= j]]
    ELSE [found |-> FALSE, item |-> FieldItem("", "", "", <<>>, "")]

\* chartType.includes('Line')
IncludesLine(chartType) ==
    chartType \in {"Line Chart", "Dotted Line Chart", "Custom Line", "Linear Regression"}

\* ----------------------------------------------------- assembleVegaChart
\* { <key>: <node> }
Single(key, node) == Tree({ << <<>>, Obj >>, << <<key>>, node >> })

\* encodingObj.type of a channel bound to a field
fieldType(channel, encoding, field, rows, aggrPreprocessed) ==
    IF encoding.aggregate # "" /\ aggrPreprocessed THEN "quantitative"
    ELSE IF field.semanticType = "Year"
    THEN IF channel \in {"color", "size", "column", "row"} THEN "nominal" ELSE "temporal"
    ELSE getDType(field.type, ColumnValues(rows, field.name))

\* mutant: an aggregated channel names the aggregate's column whatever the mode
fieldNameOfAggregateColumn(encoding, field, aggrPreprocessed) ==
    IF encoding.aggregate # ""
    THEN IF encoding.aggregate = "count" THEN Str("_count")
         ELSE [k |-> "str", v |-> <<field.name, "_", encoding.aggregate>>]
    ELSE Str(field.name)

\* encodingObj.field of a channel bound to a field
fieldName(encoding, field, aggrPreprocessed) ==
    IF aggrPreprocessed /\ encoding.aggregate # ""
    THEN IF encoding.aggregate = "count" THEN Str("_count")
         ELSE [k |-> "str", v |-> <<field.name, "_", encoding.aggregate>>]
    ELSE Str(field.name)

\* mutant: the scale takes the domain, and the legend the values, as they come
withDomainAsListed(e, domain, actualDomain) ==
    IF (\A v \in Range(actualDomain) : v \in Range(domain)) /\ Len(domain) > Len(actualDomain)
    THEN Graft(Graft(e, <<"scale">>,
                     Single("domain", List([i \in DOMAIN domain |-> domain[i].v]))),
               <<"legend">>,
               Single("values", List([i \in DOMAIN actualDomain |-> actualDomain[i].v])))
    ELSE e

\* scale = { domain: scaleValues }, legend = { values: legendValues } when the
\* field's domain is a proper superset of the values in the rows
withDomain(e, domain, actualDomain) ==
    IF (\A v \in Range(actualDomain) : v \in Range(domain)) /\ Len(domain) > Len(actualDomain)
    THEN Graft(Graft(e, <<"scale">>,
                     Single("domain", List(SortTexts({c.v : c \in Range(domain)})))),
               <<"legend">>,
               Single("values", List(SortTexts({c.v : c \in Range(actualDomain)}))))
    ELSE e

\* a compact legend for many values in the rows
withCompactLegend(e, actualDomain) ==
    IF Len(actualDomain) >= ManyColorValues
    THEN Put(Put(IF Has(e, <<"legend">>) THEN e ELSE Graft(e, <<"legend">>, EmptyObject),
                 <<"legend", "symbolSize">>, Num("12")),
             <<"legend", "labelFontSize">>, Num("8"))
    ELSE e

\* a twenty-colour scheme for a large domain
withLargeScheme(e, domain) ==
    IF Cardinality(Range(domain)) >= ManyColorValues
    THEN Put(IF Has(e, <<"scale">>) THEN e ELSE Graft(e, <<"scale">>, EmptyObject),
             <<"scale", "scheme">>, Str("tableau20"))
    ELSE e

\* Handle color encoding for nominal fields
colorDomain(e, field, actualDomain) ==
    withLargeScheme(withCompactLegend(withDomain(e, field.domain, actualDomain), actualDomain),
                    field.domain)

\* mutant: the operator is attached whatever the mode
withAggregateInBothModes(e, encoding, aggrPreprocessed) ==
    IF encoding.aggregate = "" THEN e
    ELSE IF encoding.aggregate = "count"
    THEN Put(Put(e, <<"aggregate">>, Str("count")), <<"title">>, Str("Count"))
    ELSE Put(e, <<"aggregate">>, Str(encoding.aggregate))

\* Handle aggregations, raw mode: aggregate, and the title of a count
withAggregate(e, encoding, aggrPreprocessed) ==
    IF encoding.aggregate = "" THEN e
    ELSE IF encoding.aggregate = "count"
    THEN Put(IF aggrPreprocessed THEN e ELSE Put(e, <<"aggregate">>, Str("count")),
             <<"title">>, Str("Count"))
    ELSE IF aggrPreprocessed THEN e
    ELSE Put(e, <<"aggregate">>, Str(encoding.aggregate))

\* Special handling for line charts
withLineScale(e, channel, chartType, type) ==
    IF type = "quantitative" /\ IncludesLine(chartType) /\ channel = "x"
    THEN Graft(e, <<"scale">>, Single("nice", Bool("false")))
    ELSE e

\* the colour domain of a nominal color channel
withColorDomain(e, channel, field, rows, type) ==
    IF type = "nominal" /\ channel = "color"
    THEN colorDomain(e, field, Unique(ColumnValues(rows, field.name)))
    ELSE e

\* if (field) { ... }, the type being known
fieldEncodingOfType(e, channel, encoding, field, chartType, rows, aggrPreprocessed, type) ==
    withColorDomain(
        withLineScale(
            withAggregate(
                Put(Put(e, <<"field">>, fieldName(encoding, field, aggrPreprocessed)),
                    <<"type">>, Str(type)),
                encoding, aggrPreprocessed),
            channel, chartType, type),
        channel, field, rows, type)

\* if (field) { ... }
fieldEncoding(e, channel, encoding, field, chartType, rows, aggrPreprocessed) ==
    fieldEncodingOfType(e, channel, encoding, field, chartType, rows, aggrPreprocessed,
                        fieldType(channel, encoding, field, rows, aggrPreprocessed))

\* JSON.parse(encoding.sortBy).values is reached and gives a list
sortListParsed(encoding) ==
    /\ encoding.sortBy # "" \/ encoding.sortOrder # ""
    /\ encoding.sortBy \notin {"", "default", "x", "y"}
    /\ encoding.sortBy \in DOMAIN SortLists

\* encoding.sortOrder || 'ascending'
sortOrderOf(encoding) == IF encoding.sortOrder = "" THEN "ascending" ELSE encoding.sortOrder

\* encodingObj.scale of the radius channel
radiusScale(channel) ==
    IF channel = "radius"
    THEN Graft(EmptyObject, <<"scale">>,
               Tree({ << <<>>, Obj >>, << <<"type">>, Str("sqrt") >>,
                      << <<"zero">>, Bool("true") >> }))
    ELSE EmptyObject

\* Handle count aggregation for preprocessed data
withCount(e, encoding, found, aggrPreprocessed) ==
    IF ~found /\ encoding.aggregate = "count" /\ aggrPreprocessed
    THEN Put(Put(Put(e, <<"field">>, Str("_count")), <<"title">>, Str("Count")),
             <<"type">>, Str("quantitative"))
    ELSE e

\* Handle sorting
withSort(e, encoding) ==
    IF encoding.sortBy = "" /\ encoding.sortOrder = "" THEN e
    ELSE IF encoding.sortBy \in {"", "default"}
    THEN Put(e, <<"sort">>, Str(sortOrderOf(encoding)))
    ELSE IF encoding.sortBy \in {"x", "y"}
    THEN Put(e, <<"sort">>,
             IF sortOrderOf(encoding) = "ascending" THEN Str(encoding.sortBy)
             ELSE [k |-> "str", v |-> <<"-", encoding.sortBy>>])
    ELSE IF sortListParsed(encoding)
    THEN Put(e, <<"sort">>,
             List(IF sortOrderOf(encoding) = "ascending" THEN SortLists[encoding.sortBy]
                  ELSE Reverse(SortLists[encoding.sortBy])))
    ELSE e

\* Handle stacking
withStack(e, encoding) ==
    IF encoding.stack = "" THEN e
    ELSE Put(e, <<"stack">>, IF encoding.stack = "layered" THEN Null ELSE Str(encoding.stack))

\* Handle color schemes
withScheme(e, encoding) ==
    IF encoding.scheme = "" THEN e
    ELSE IF Has(e, <<"scale">>) THEN Put(e, <<"scale", "scheme">>, Str(encoding.scheme))
    ELSE Graft(e, <<"scale">>, Single("scheme", Str(encoding.scheme)))

\* the field-dependent part of encodingObj, f being what the lookup gave
withField(e, channel, encoding, f, chartType, rows, aggrPreprocessed) ==
    IF f.found
    THEN fieldEncoding(e, channel, encoding, f.item, chartType, rows, aggrPreprocessed)
    ELSE e

\* encodingObj of one channel, f being what the field lookup gave
encodingObjFor(channel, encoding, f, chartType, rows, aggrPreprocessed) ==
    withScheme(
        withStack(
            withSort(
                withField(withCount(radiusScale(channel), encoding, f.found, aggrPreprocessed),
                          channel, encoding, f, chartType, rows, aggrPreprocessed),
                encoding),
            encoding),
        encoding)

\* encodingObj of one channel, as it stands when the paths are written
encodingObjOf(channel, encoding, items, chartType, rows, aggrPreprocessed) ==
    encodingObjFor(channel, encoding, findField(items, encoding.fieldID), chartType, rows,
                   aggrPreprocessed)

\* vgObj.mark === 'bar' || vgObj.mark === 'area'
isBarOrArea(vg) == Has(vg, <<"mark">>) /\ vg[<<"mark">>] \in {Str("bar"), Str("area")}

\* `color_${field?.name}_sort_index`
sortIndexName(f) ==
    [k |-> "str",
     v |-> <<"color_", IF f.found THEN f.item.name ELSE "undefined", "_sort_index">>]

\* Special handling for stacked charts:
\* vgObj.encoding.order = { field: `color_${field?.name}_sort_index` }
orderOfSortedColor(vg, channel, encoding, items) ==
    IF channel = "color" /\ sortListParsed(encoding) /\ isBarOrArea(vg)
    THEN Graft(IF Has(vg, <<"encoding">>) /\ vg[<<"encoding">>].k \in {"obj", "arr"}
               THEN vg ELSE Graft(vg, <<"encoding">>, EmptyObject),
               <<"encoding", "order">>,
               Single("field", sortIndexName(findField(items, encoding.fieldID))))
    ELSE vg

\* Fill the template with encoding objects: one path
writePath(vg, path, e) ==
    IF Has(vg, path) /\ vg[path].k = "str"
    THEN Put(vg, path, IF Has(e, <<"field">>) THEN e[<<"field">>] ELSE Undefined)
    ELSE MergeAt(vg, path, e)

RECURSIVE writePaths(_, _, _)
writePaths(vg, paths, e) ==
    IF paths = <<>> THEN vg
    ELSE writePaths(writePath(vg, Head(paths), e), Tail(paths), e)

\* Apply encoding to chart template paths
writeChannel(vg, paths, e) ==
    IF KeysAt(e, <<>>) # {} /\ paths # <<>> THEN writePaths(vg, paths, e) ELSE vg

\* one turn of the loop over Object.entries(encodingMap)
applyChannel(vg, channel, encoding, chartTemplate, items, chartType, rows, aggrPreprocessed) ==
    writeChannel(orderOfSortedColor(vg, channel, encoding, items),
                 chartTemplate.paths[channel],
                 encodingObjOf(channel, encoding, items, chartType, rows, aggrPreprocessed))

\* the channels in the order the loop meets them; no two channels of a
\* template share a path and only color touches encoding.order
ChannelOrder == <<"x", "y", "x2", "y2", "color", "opacity", "size", "shape",
                  "column", "row", "detail", "group", "radius">>

RECURSIVE applyChannels(_, _, _, _, _, _, _)
applyChannels(vg, i, encodingMap, chartTemplate, items, rows, aggrPreprocessed) ==
    IF i > Len(ChannelOrder) THEN vg
    ELSE IF ChannelOrder[i] \notin DOMAIN encodingMap
    THEN applyChannels(vg, i + 1, encodingMap, chartTemplate, items, rows, aggrPreprocessed)
    ELSE applyChannels(
            applyChannel(vg, ChannelOrder[i], encodingMap[ChannelOrder[i]], chartTemplate,
                         items, chartTemplate.chart, rows, aggrPreprocessed),
            i + 1, encodingMap, chartTemplate, items, rows, aggrPreprocessed)

\* Handle faceting
facet(vg) ==
    IF Has(vg, <<"encoding", "column">>) /\ ~Has(vg, <<"encoding", "row">>)
    THEN Put(Graft(Prune(vg, <<"encoding", "column">>), <<"encoding", "facet">>,
                   SubTree(vg, <<"encoding", "column">>)),
             <<"encoding", "facet", "columns">>, Num("6"))
    ELSE vg

\* obj[p].field is a string
hasFieldAt(t, p) == Has(t, p \o <<"field">>) /\ t[p \o <<"field">>].k = "str"

\* obj[p].field as a column name; a name put together from parts, like a
\* missing one, names no column of the modelled rows
fieldNameAt(t, p) ==
    IF hasFieldAt(t, p) /\ Len(t[p \o <<"field">>].v) = 1
    THEN t[p \o <<"field">>].v[1]
    ELSE "undefined"

\* obj[p].type === 'nominal'
isNominalAt(t, p) == Has(t, p \o <<"type">>) /\ t[p \o <<"type">>] = Str("nominal")

\* Number(v) of the modelled values
NumberOf == ("3" :> 3) @@ ("5" :> 5) @@ ("7" :> 7) @@ ("10" :> 10)
            @@ ("2019" :> 2019) @@ ("2020" :> 2020) @@ ("2021" :> 2021) @@ ("null" :> 0)

\* Number(v) is a number
isNumber(c) == c.t \in {"num", "null"} \/ (c.t = "str" /\ c.v \in NumericTexts)

\* the text of the least and of the greatest of the values
leastText(texts) == CHOOSE x \in texts : \A y \in texts : NumberOf[x] <= NumberOf[y]

greatestText(texts) == CHOOSE x \in texts : \A y \in texts : NumberOf[x] >= NumberOf[y]

\* [Math.min(...xValues, 0), Math.max(...xValues)]
minMaxDomain(xValues) ==
    IF \E i \in DOMAIN xValues : ~isNumber(xValues[i]) THEN List(<<"NaN", "NaN">>)
    ELSE IF xValues = <<>> THEN List(<<"0", "-Infinity">>)
    ELSE List(<< IF NumberOf[leastText({c.v : c \in Range(xValues)})] < 0
                 THEN leastText({c.v : c \in Range(xValues)}) ELSE "0",
                 IF greatestText({c.v : c \in Range(xValues)}) = "null"
                 THEN "0" ELSE greatestText({c.v : c \in Range(xValues)}) >>)

\* colorValues[i - 1]
valueAt(values, i) == IF i <= Len(values) THEN values[i] ELSE UndefCell

\* hconcat[h].transform = [{ filter: `datum["${colorField}"] == "${value}"` }]
\* hconcat[h].title = value
pyramidSide(vg, h, colorText, value) ==
    Put(Graft(vg, <<"hconcat", h, "transform">>,
              Tree({ << <<>>, Arr >>, << <<"0">>, Obj >>,
                     << <<"0", "filter">>,
                        [k |-> "str",
                         v |-> <<"datum[\"">> \o colorText \o <<"\"] == \"", value.v, "\"">>] >> })),
        <<"hconcat", h, "title">>, CellNode(value))

\* hconcat[0].encoding.x.scale.domain = domain; hconcat[1].encoding.x.scale = { domain }
\* the first of them throws, and the catch ends the post-processor, when x has no scale
pyramidDomain(vg, domain) ==
    IF Has(vg, <<"hconcat", "0", "encoding", "x", "scale">>)
       /\ vg[<<"hconcat", "0", "encoding", "x", "scale">>].k = "obj"
    THEN Graft(Put(vg, <<"hconcat", "0", "encoding", "x", "scale", "domain">>, domain),
               <<"hconcat", "1", "encoding", "x", "scale">>, Single("domain", domain))
    ELSE vg

\* the x values of the rows of the first two colour values
pyramidXValues(rows, colorField, colorValues, xField) ==
    Unique(ColumnValues(
        SelectSeq(rows, LAMBDA r : CellOf(r, colorField) \in
                                     {valueAt(colorValues, 1), valueAt(colorValues, 2)}),
        xField))

\* the post-processor, colorField and its values being known
pyramidWith(vg, rows, colorField, colorText, colorValues) ==
    pyramidDomain(
        pyramidSide(pyramidSide(vg, "0", colorText, valueAt(colorValues, 1)),
                    "1", colorText, valueAt(colorValues, 2)),
        minMaxDomain(pyramidXValues(rows, colorField, colorValues,
                                    fieldNameAt(vg, <<"hconcat", "0", "encoding", "x">>))))

\* postProcessor of the Pyramid Chart
pyramidPostProcessor(vg, rows) ==
    pyramidWith(vg, rows,
                fieldNameAt(vg, <<"hconcat", "0", "encoding", "color">>),
                IF hasFieldAt(vg, <<"hconcat", "0", "encoding", "color">>)
                THEN vg[<<"hconcat", "0", "encoding", "color", "field">>].v
                ELSE <<"undefined">>,
                Unique(ColumnValues(rows,
                                    fieldNameAt(vg, <<"hconcat", "0", "encoding", "color">>))))

\* if (vgSpec.encoding.<c> && vgSpec.encoding.<c>.type !== 'nominal') type = 'nominal'
forceNominal(vg, c) ==
    IF Has(vg, <<"encoding", c>>) /\ ~isNominalAt(vg, <<"encoding", c>>)
    THEN Put(vg, <<"encoding", c, "type">>, Str("nominal"))
    ELSE vg

\* postProcessor of the Ranged Dot Plot
rangedDotPostProcessor(vg) ==
    IF isNominalAt(vg, <<"encoding", "y">>)
    THEN Graft(vg, <<"layer", "0", "encoding", "detail">>, SubTree(vg, <<"encoding", "y">>))
    ELSE IF isNominalAt(vg, <<"encoding", "x">>)
    THEN Graft(vg, <<"layer", "0", "encoding", "detail">>, SubTree(vg, <<"encoding", "x">>))
    ELSE vg

\* chartTemplate.postProcessor(vgObj, workingTable)
postProcess(name, vg, rows) ==
    IF name = "Ranged Dot Plot" THEN rangedDotPostProcessor(vg)
    ELSE IF name = "Boxplot" THEN forceNominal(vg, "x")
    ELSE IF name = "Heat Map" THEN forceNominal(forceNominal(vg, "y"), "x")
    ELSE IF name = "Pyramid Chart" THEN pyramidPostProcessor(vg, rows)
    ELSE vg

\* concept.name === k && (concept.type === 'date' || concept.semanticType === 'Year')
isTemporalKey(items, key) ==
    \E i \in DOMAIN items :
        items[i].name = key /\ (items[i].type = "date" \/ items[i].semanticType = "Year")

\* Prepare data values: the rows with every temporal column turned into text
dataValues(rows, items) ==
    [i \in DOMAIN rows |->
        [key \in DOMAIN rows[i] |->
            IF isTemporalKey(items, key) THEN StrCell(rows[i][key].v) ELSE rows[i][key]]]

\* Handle nominal axes with many entries: the channels warned about
nominalWarnings(vg, values, maxNominalValues) ==
    {c \in {"x", "y", "column", "row", "xOffset"} :
        /\ isNominalAt(vg, <<"encoding", c>>)
        /\ hasFieldAt(vg, <<"encoding", c>>)
        /\ Len(Unique(ColumnValues(values, fieldNameAt(vg, <<"encoding", c>>))))
              > maxNominalValues}

\* the spec of a call that gives none
UndefinedSpec == Tree({<< <<>>, Undefined >>})

\* mutant: the template object itself is filled in
aliasTemplate(template) == [value |-> template, shared |-> TRUE]

\* structuredClone(chartTemplate.template), structuredClone(workingTable): an
\* equal value that shares nothing
structuredClone(template) == [value |-> template, shared |-> FALSE]

\* mutant: the domain array of the field itself
domainItself(domain) == [value |-> domain, shared |-> TRUE]

\* [...new Set(field.domain)]: a new array of the distinct values
spreadOfSet(domain) == [value |-> Unique(domain), shared |-> FALSE]

\* cells.sort(), the cells being distinct
RECURSIVE SortCells(_)
SortCells(S) ==
    IF S = {} THEN <<>>
    ELSE LET m == CHOOSE x \in S : \A y \in S : Rank(x.v) <= Rank(y.v)
         IN  <<m>> \o SortCells(S \ {m})

\* field.domain after `arr.sort()`: sorted with arr when arr is the domain itself
domainAfterSort(domain, arr) ==
    IF arr.shared THEN SortCells(Range(arr.value)) ELSE domain

\* the loop comes to `const scaleValues = [...new Set(field.domain)].sort()`
\* for the concept: it is on a nominal color channel, its domain beyond the rows
sortsDomainOf(in, item) ==
    /\ "color" \in DOMAIN in.encodingMap
    /\ findField(in.conceptShelfItems, in.encodingMap["color"].fieldID)
         = [found |-> TRUE, item |-> item]
    /\ fieldType("color", in.encodingMap["color"], item, in.workingTable,
                 in.aggrPreprocessed) = "nominal"
    /\ \A v \in Range(ColumnValues(in.workingTable, item.name)) : v \in Range(item.domain)
    /\ Len(item.domain) > Len(Unique(ColumnValues(in.workingTable, item.name)))

\* conceptShelfItems as the loop leaves them
conceptShelfItemsAfter(in) ==
    [i \in DOMAIN in.conceptShelfItems |->
        IF sortsDomainOf(in, in.conceptShelfItems[i])
        THEN [in.conceptShelfItems[i] EXCEPT !.domain = domainAfterSort(@, spreadOfSet(@))]
        ELSE in.conceptShelfItems[i]]

\* workingTable after `values.map(r => { r[temporalKey] = String(...) })` on
\* values: rewritten with values when values is the table itself
workingTableAfter(in, values) ==
    IF values.shared THEN dataValues(values.value, in.conceptShelfItems)
    ELSE in.workingTable

\* the caller's arguments as a call that got to its end leaves them; nothing
\* assigns to encodingMap or to an encoding
inputsAfter(in) ==
    [encodingMap |-> in.encodingMap,
     conceptShelfItems |-> conceptShelfItemsAfter(in),
     workingTable |-> workingTableAfter(in, structuredClone(in.workingTable))]

\* the caller's arguments as a call that returned or threw early leaves them
inputsUntouched(in) ==
    [encodingMap |-> in.encodingMap, conceptShelfItems |-> in.conceptShelfItems,
     workingTable |-> in.workingTable]

\* the catalogue with the template object of chartType now holding obj
withTemplate(reg, chartType, obj) ==
    [i \in DOMAIN reg |->
        IF reg[i].chart = chartType THEN [reg[i] EXCEPT !.template = obj] ELSE reg[i]]

\* a call that gives no chart spec: 'Table', or a thrown error
noSpec(reg, in, chartType, thrown) ==
    [thrown |-> thrown, chartType |-> chartType, vgObj |-> UndefinedSpec,
     values |-> <<>>, warnings |-> {}, registry |-> reg, inputs |-> inputsUntouched(in)]

\* return [chartType, vgObj], with what the call logged and what it left behind
assembled(reg, in, shared, vgObj, values) ==
    [thrown |-> FALSE, chartType |-> in.chartType, vgObj |-> vgObj, values |-> values,
     warnings |-> nominalWarnings(vgObj, values, in.maxNominalValues),
     registry |-> IF shared THEN withTemplate(reg, in.chartType, vgObj) ELSE reg,
     inputs |-> inputsAfter(in)]

\* the call from the clone of the template on
assembleFrom(reg, in, chartTemplate, vgObj) ==
    assembled(reg, in, vgObj.shared,
              postProcess(chartTemplate.postProcessor,
                          facet(applyChannels(vgObj.value, 1, in.encodingMap, chartTemplate,
                                              in.conceptShelfItems, in.workingTable,
                                              in.aggrPreprocessed)),
                          in.workingTable),
              dataValues(in.workingTable, in.conceptShelfItems))

\* the call, chartTemplate being what getChartTemplate gave
assembleWith(reg, in, chartTemplate) ==
    IF in.chartType = "Table" THEN noSpec(reg, in, "Table", FALSE)
    ELSE IF chartTemplate = NoTemplate THEN noSpec(reg, in, in.chartType, TRUE)
    ELSE assembleFrom(reg, in, chartTemplate, structuredClone(chartTemplate.template))

\* Main chart assembly function.  in: chartType, encodingMap, conceptShelfItems,
\* workingTable, maxNominalValues, aggrPreprocessed.  The outcome is what the
\* caller gets (a thrown error or [chartType, vgObj]), the warnings logged and
\* the catalogue as the call leaves it.
assembleVegaChart(reg, in) == assembleWith(reg, in, getChartTemplate(reg, in.chartType))

\* ------------------------------------------------------------- data model
\* DictTable.derive: present = FALSE stands for `derive: undefined`.
NoDerive == [present |-> FALSE, source |-> {}, tableId |-> NoId]

Derive(source, tableId) == [present |-> TRUE, source |-> source, tableId |-> tableId]

DictTable(id, anchored, derive) == [id |-> id, anchored |-> anchored, derive |-> derive]

\* The store's reducers read a chart's id and tableRef only.
Chart(id, tableRef) == [id |-> id, tableRef |-> tableRef]

TableIds(ts) == {ts[i].id : i \in DOMAIN ts}

ChartIds(cs) == {cs[i].id : i \in DOMAIN cs}

\* the literal getDataTable returns when there is no table at all
DefaultTable == DictTable(NoId, FALSE, NoDerive)

\* tables.find(t => t.id === chart.tableRef) || tables[0] || {id: 'default', ...}
getDataTable(chart, ts) ==
    IF \E i \in DOMAIN ts : ts[i].id = chart.tableRef
    THEN ts[CHOOSE i \in DOMAIN ts :
                /\ ts[i].id = chart.tableRef
                /\ \A j \in DOMAIN ts : ts[j].id = chart.tableRef => i <= j]
    ELSE IF Len(ts) > 0 THEN ts[1] ELSE DefaultTable

\* mutant: `find` in place of `filter`, only the first unreferenced table is reported
getUnrefedDerivedTableIdsFirstOnly(ts, cs) ==
    LET chartRefedTables == {getDataTable(cs[i], ts).id : i \in DOMAIN cs}
        unrefed == {i \in DOMAIN ts : ts[i].derive.present /\ ts[i].id \notin chartRefedTables}
    IN  {ts[i].id : i \in {j \in unrefed : \A k \in unrefed : j <= k}}

getUnrefedDerivedTableIds(ts, cs) ==
    LET chartRefedTables == {getDataTable(cs[i], ts).id : i \in DOMAIN cs}
    IN  {t.id : t \in {x \in Range(ts) : x.derive.present /\ x.id \notin chartRefedTables}}

\* mutant: the `!t.anchored` test is lost
tableIdsToDeleteAnchoredToo(ts, cs) == getUnrefedDerivedTableIds(ts, cs)

\* mutant: the tables that remaining charts are on are not spared
tableIdsToDeleteReferencedToo(ts, cs) ==
    {t.id : t \in {x \in Range(ts) : ~x.anchored /\ x.derive.present}}

\* The tables deleteChartsRoutine drops once the charts are gone.
tableIdsToDelete(ts, cs) ==
    {t.id : t \in {x \in Range(ts) :
                     ~x.anchored /\ x.id \in getUnrefedDerivedTableIds(ts, cs)}}

\* charts.find(c => c.id === id)?.tableRef
TableRefOf(cs, id) ==
    IF \E i \in DOMAIN cs : cs[i].id = id
    THEN cs[CHOOSE i \in DOMAIN cs : cs[i].id = id].tableRef
    ELSE NoId

\* mutant: the chart focus stays on a chart that is deleted
deleteChartsRoutineKeepingFocus(st, chartIds) ==
    LET cs   == SelectSeq(st.charts, LAMBDA c : c.id \notin chartIds)
        gone == tableIdsToDelete(st.tables, cs)
    IN  [tables         |-> SelectSeq(st.tables, LAMBDA t : t.id \notin gone),
         charts         |-> cs,
         focusedChartId |-> st.focusedChartId,
         focusedTableId |-> st.focusedTableId]

\* deleteChartsRoutine(state, chartIds): the state it leaves.
deleteChartsRoutine(st, chartIds) ==
    LET cs      == SelectSeq(st.charts, LAMBDA c : c.id \notin chartIds)
        refocus == st.focusedChartId # NoId /\ st.focusedChartId \in chartIds
        fc      == IF refocus
                   THEN (IF Len(cs) > 0 THEN cs[1].id ELSE NoId)
                   ELSE st.focusedChartId
        ft      == IF refocus THEN TableRefOf(cs, fc) ELSE st.focusedTableId
        gone    == tableIdsToDelete(st.tables, cs)
    IN  [tables         |-> SelectSeq(st.tables, LAMBDA t : t.id \notin gone),
         charts         |-> cs,
         focusedChartId |-> fc,
         focusedTableId |-> ft]

State == [tables |-> tables, charts |-> charts,
          focusedChartId |-> focusedChartId, focusedTableId |-> focusedTableId]

\* The reducers that delete; the history names them and their payload.
DeleteOps == {"deleteTable", "deleteChart", "clearUnReferencedTables"}

\* Commit a reducer's resulting state, with the history of what it did.
Commit(st, op, arg) ==
    /\ tables' = st.tables
    /\ charts' = st.charts
    /\ focusedChartId' = st.focusedChartId
    /\ focusedTableId' = st.focusedTableId
    /\ lastOp' = IF op \in DeleteOps
                 THEN [op |-> op, arg |-> arg,
                       removed |-> Range(tables) \ Range(st.tables),
                       focusWas |-> focusedChartId]
                 ELSE [op |-> "other", arg |-> NoId, removed |-> {}, focusWas |-> NoId]
    /\ UNCHANGED <<lineageVars, asmVars, inferVars, sideVars>>

\* ---------------------------------------------------------------- reducers
\* addTable / loadTable: a table with no derive record is pushed.
addTable ==
    /\ nextTableId < MaxTables
    /\ \E anchored \in BOOLEAN :
         Commit([State EXCEPT !.tables =
                    Append(tables, DictTable(nextTableId + 1, anchored, NoDerive))],
                "addTable", nextTableId + 1)
    /\ nextTableId' = nextTableId + 1
    /\ UNCHANGED nextChartId

\* insertDerivedTables: the table a Trigger produced from existing tables is pushed.
insertDerivedTables ==
    /\ nextTableId < MaxTables
    /\ \E anchored \in BOOLEAN, source \in SUBSET TableIds(tables) :
         /\ source # {}
         /\ \E tableId \in source :
              Commit([State EXCEPT !.tables =
                         Append(tables, DictTable(nextTableId + 1, anchored,
                                                  Derive(source, tableId)))],
                     "insertDerivedTables", nextTableId + 1)
    /\ nextTableId' = nextTableId + 1
    /\ UNCHANGED nextChartId

deleteTable ==
    \E id \in TableIds(tables) :
        LET ts == SelectSeq(tables, LAMBDA t : t.id # id)
            chartsToDelete == {c.id : c \in {x \in Range(charts) : x.tableRef = id}}
        IN  /\ Commit(deleteChartsRoutine([State EXCEPT !.tables = ts], chartsToDelete),
                      "deleteTable", id)
            /\ UNCHANGED <<nextTableId, nextChartId>>

addChart ==
    /\ nextChartId < MaxCharts
    /\ \E tableRef \in TableIds(tables) :
         Commit([State EXCEPT !.charts =
                    Append(charts, Chart(nextChartId + 1, tableRef))],
                "addChart", nextChartId + 1)
    /\ nextChartId' = nextChartId + 1
    /\ UNCHANGED nextTableId

addAndFocusChart ==
    /\ nextChartId < MaxCharts
    /\ \E tableRef \in TableIds(tables) :
         Commit([State EXCEPT !.charts =
                    Append(charts, Chart(nextChartId + 1, tableRef)),
                              !.focusedChartId = nextChartId + 1,
                              !.focusedTableId = tableRef],
                "addAndFocusChart", nextChartId + 1)
    /\ nextChartId' = nextChartId + 1
    /\ UNCHANGED nextTableId

\* deleteChart and deleteChartById are the same reducer body.
deleteChart ==
    \E id \in ChartIds(charts) :
        /\ Commit(deleteChartsRoutine(State, {id}), "deleteChart", id)
        /\ UNCHANGED <<nextTableId, nextChartId>>

clearUnReferencedTables ==
    LET referencedTableIds == {charts[i].tableRef : i \in DOMAIN charts}
    IN  /\ Commit([State EXCEPT !.tables =
                      SelectSeq(tables, LAMBDA t : t.id \in referencedTableIds \/ t.anchored)],
                  "clearUnReferencedTables", NoId)
        /\ UNCHANGED <<nextTableId, nextChartId>>

\* setFocusedChart / setFocusedChartId with the id of an existing chart
setFocusedChart ==
    \E id \in ChartIds(charts) :
        /\ Commit([State EXCEPT !.focusedChartId = id,
                                !.focusedTableId = TableRefOf(charts, id)],
                  "setFocusedChart", id)
        /\ UNCHANGED <<nextTableId, nextChartId>>

\* setFocusedTable / setFocusedTableId with the id of an existing table
setFocusedTable ==
    \E id \in TableIds(tables) :
        /\ Commit([State EXCEPT !.focusedTableId = id], "setFocusedTable", id)
        /\ UNCHANGED <<nextTableId, nextChartId>>

\* no assembleVegaChart call is under way
AsmIdle == [pc |-> "idle", calls |-> 0]

\* no thumbnail is rendered
ThumbIdle == [pc |-> "idle"]

\* no column is having its type inferred
\* no SSE client has been constructed
SseIdle == [pc |-> "none"]

\* no request of the API client is under way
ApiIdle == [pc |-> "idle"]

InferIdle == [pc |-> "idle"]

\* no lineage traversal has been asked for
TravIdle == [pc |-> "idle", leaf |-> NoId, cur |-> NoId, chain |-> <<>>, visited |-> {}]

\* initialState of the slice
Init ==
    /\ tables = <<>>
    /\ charts = <<>>
    /\ focusedChartId = NoId
    /\ focusedTableId = NoId
    /\ nextTableId = 0
    /\ nextChartId = 0
    /\ lastOp = [op |-> "init", arg |-> NoId, removed |-> {}, focusWas |-> NoId]
    /\ trav = TravIdle
    /\ registry = CHART_TEMPLATES
    /\ asm = AsmIdle
    /\ infer = InferIdle
    /\ api = ApiIdle
    /\ sse = SseIdle
    /\ thumb = ThumbIdle

\* The store without the focus reducers: table and chart insertion and deletion.
Next ==
    \/ addTable
    \/ insertDerivedTables
    \/ deleteTable
    \/ addChart
    \/ deleteChart
    \/ clearUnReferencedTables

Spec == Init /\ [][Next]_vars

\* The store with the focus reducers as well.
FocusNext ==
    \/ addTable
    \/ insertDerivedTables
    \/ deleteTable
    \/ addChart
    \/ addAndFocusChart
    \/ deleteChart
    \/ clearUnReferencedTables
    \/ setFocusedChart
    \/ setFocusedTable

SpecFocus == Init /\ [][FocusNext]_vars

\* ------------------------------------------------------- cascade delete
ReferencedTableIds == {charts[i].tableRef : i \in DOMAIN charts}

ChartsOn(cs, id) == {c \in Range(cs) : c.tableRef = id}

C3_AnchoredSurvivesCascade ==
    [][\A t \in Range(tables) :
          (t.anchored /\ ~(lastOp'.op = "deleteTable" /\ lastOp'.arg = t.id))
          => t \in Range(tables')]_vars

\* a cascade or clean-up removed tables while an anchored, derived table that no
\* chart references stayed
C3_Witness ==
    /\ lastOp.op \in {"deleteChart", "deleteTable", "clearUnReferencedTables"}
    /\ lastOp.removed # {}
    /\ \E t \in Range(tables) :
           t.anchored /\ t.derive.present /\ t.id \notin ReferencedTableIds

\* ------------------------------------------------------- table lineage
\* derive.trigger of a derived table: the table the action ran against and the
\* table it produced (a Trigger and its table are created together).
Trigger(t) == [tableId |-> t.derive.tableId, resultTableId |-> t.id]

\* tables.find(t => t.id == id)
TableById(ts, id) == ts[CHOOSE i \in DOMAIN ts : ts[i].id = id]

\* The tables a saved state can hold: every table is anchored or derived, and a
\* derived table's trigger names any table of the set (so cycles can be loaded).
LineageTable(id) ==
    {DictTable(id, TRUE, NoDerive)} \cup
    {DictTable(id, a, Derive({p}, p)) : a \in BOOLEAN, p \in 1..MaxLineageTables}

\* loadState(savedState): a saved table set replaces the store's tables
LineageInit ==
    /\ tables \in [1..MaxLineageTables -> UNION {LineageTable(id) : id \in 1..MaxLineageTables}]
    /\ \A i \in 1..MaxLineageTables : tables[i].id = i
    /\ charts = <<>>
    /\ focusedChartId = NoId
    /\ focusedTableId = NoId
    /\ nextTableId = MaxLineageTables
    /\ nextChartId = 0
    /\ lastOp = [op |-> "init", arg |-> NoId, removed |-> {}, focusWas |-> NoId]
    /\ trav = TravIdle
    /\ registry = CHART_TEMPLATES
    /\ asm = AsmIdle
    /\ infer = InferIdle
    /\ api = ApiIdle
    /\ sse = SseIdle
    /\ thumb = ThumbIdle

\* getChainToRoot(table, allTables) is entered
getChainToRootStart ==
    /\ trav.pc = "idle"
    /\ \E leaf \in TableIds(tables) :
         trav' = [pc |-> "run", leaf |-> leaf, cur |-> leaf, chain |-> <<>>, visited |-> {}]
    /\ UNCHANGED <<storeVars, asmVars, inferVars, sideVars>>

\* mutant: the trigger is appended, the chain comes out leaf-to-root
ChainStepAppend(tr, ts) ==
    LET t == TableById(ts, tr.cur)
    IN  IF t.anchored THEN [tr EXCEPT !.pc = "done"]
        ELSE IF tr.cur \in tr.visited THEN [tr EXCEPT !.pc = "error"]
        ELSE [tr EXCEPT !.chain = Append(tr.chain, Trigger(t)),
                        !.visited = tr.visited \cup {tr.cur},
                        !.cur = t.derive.tableId]

\* mutant: a revisited table ends the loop silently with the chain so far
ChainStepSilentCycle(tr, ts) ==
    LET t == TableById(ts, tr.cur)
    IN  IF t.anchored \/ tr.cur \in tr.visited THEN [tr EXCEPT !.pc = "done"]
        ELSE [tr EXCEPT !.chain = <<Trigger(t)>> \o tr.chain,
                        !.visited = tr.visited \cup {tr.cur},
                        !.cur = t.derive.tableId]

\* One turn of the traversal loop: stop at an anchored table, abort on a table
\* seen before, else put the table's trigger in front and go to its source.
ChainStep(tr, ts) ==
    LET t == TableById(ts, tr.cur)
    IN  IF t.anchored THEN [tr EXCEPT !.pc = "done"]
        ELSE IF tr.cur \in tr.visited THEN [tr EXCEPT !.pc = "error"]
        ELSE [tr EXCEPT !.chain = <<Trigger(t)>> \o tr.chain,
                        !.visited = tr.visited \cup {tr.cur},
                        !.cur = t.derive.tableId]

getChainToRootStep ==
    /\ trav.pc = "run"
    /\ trav' = ChainStep(trav, tables)
    /\ UNCHANGED <<storeVars, asmVars, inferVars, sideVars>>

LineageNext ==
    \/ getChainToRootStart
    \/ getChainToRootStep

\* the traversal is synchronous code: once entered, its loop keeps running
SpecLineage == LineageInit /\ [][LineageNext]_vars /\ WF_vars(getChainToRootStep)

\* The tables met when walking from a table to its sources, as long as the
\* table walked from is not anchored (n bounds the walk; a table set has
\* MaxLineageTables tables).
RECURSIVE Walk(_, _, _)
Walk(ts, seen, n) ==
    LET more == seen \cup {TableById(ts, id).derive.tableId :
                              id \in {x \in seen : ~TableById(ts, x).anchored}}
    IN  IF n = 0 \/ more = seen THEN seen ELSE Walk(ts, more, n - 1)

ReachesAnchored(ts, leaf) ==
    \E id \in Walk(ts, {leaf}, Len(ts)) : TableById(ts, id).anchored

\* C9: a finished traversal holds one trigger per derived table on the path from
\* the anchored root to the given table, root first: it starts at the anchored
\* table reached, each trigger runs against the table the one before produced,
\* the last one produced the given table, and no table occurs twice; for
\* root -> T1 -> T2 it is exactly <<trigger1, trigger2>>.
C9_ChainRootToLeaf ==
    trav.pc = "done" =>
        LET chain == trav.chain
            n     == Len(chain)
        IN  /\ TableById(tables, trav.cur).anchored
            /\ n = 0 => trav.cur = trav.leaf
            /\ n > 0 => /\ chain[1].tableId = trav.cur
                        /\ chain[n].resultTableId = trav.leaf
            /\ \A i \in 1..n :
                   /\ chain[i] = Trigger(TableById(tables, chain[i].resultTableId))
                   /\ ~TableById(tables, chain[i].resultTableId).anchored
                   /\ i < n => chain[i].resultTableId = chain[i + 1].tableId
            /\ \A i \in 1..n, j \in 1..n :
                   chain[i].resultTableId = chain[j].resultTableId => i = j
            /\ ( /\ tables[1].anchored
                 /\ tables[2] = DictTable(2, FALSE, Derive({1}, 1))
                 /\ tables[3] = DictTable(3, FALSE, Derive({2}, 2))
                 /\ trav.leaf = 3 )
               => chain = << [tableId |-> 1, resultTableId |-> 2],
                             [tableId |-> 2, resultTableId |-> 3] >>

\* the traversal of T2 in root -> T1 -> T2 has finished
C9_Witness ==
    /\ trav.pc = "done"
    /\ trav.leaf = 3
    /\ tables[1].anchored
    /\ tables[2] = DictTable(2, FALSE, Derive({1}, 1))
    /\ tables[3] = DictTable(3, FALSE, Derive({2}, 2))
    /\ Len(trav.chain) = 2

\* C10: every traversal ends; it ends normally only at an anchored table that
\* the given table's sources lead to, and it ends in the data-integrity error
\* exactly when the sources lead back to a table already visited.
C10_TraversalEnds ==
    /\ [](trav.pc = "run" => <>(trav.pc \in {"done", "error"}))
    /\ [](trav.pc = "done" => /\ TableById(tables, trav.cur).anchored
                              /\ ReachesAnchored(tables, trav.leaf))
    /\ [](trav.pc = "error" => ~ReachesAnchored(tables, trav.leaf))

\* a traversal over a cyclic derivation has aborted
C10_Witness ==
    /\ trav.pc = "error"
    /\ Cardinality(trav.visited) >= 2

\* ------------------------------------------------- the assembler at work
\* at most this many rows are in a working table
MaxRows == 3

\* at most this many calls are followed
MaxCalls == 2

\* maxNominalValues: number = 68
DefaultMaxNominalValues == 68

Row(country, population, year, region) ==
    [Country |-> StrCell(country), Population |-> NumCell(population),
     Year |-> NumCell(year), Region |-> StrCell(region)]

SampleRows == << Row("A", "10", "2020", "R02"), Row("C", "5", "2021", "R01"),
                 Row("A", "7", "2021", "R02"), Row("B", "3", "2020", "R16") >>

\* a table of two columns
CensusRow(country, population) ==
    [Country |-> StrCell(country), Population |-> NumCell(population)]

CensusRows == << CensusRow("A", "10"), CensusRow("A", "5"), CensusRow("B", "7") >>

\* the first n rows of a table, all of them when it has fewer
FirstRows(rows, n) == SubSeq(rows, 1, IF n <= Len(rows) THEN n ELSE Len(rows))

WorkingTables ==
    {FirstRows(SampleRows, n) : n \in 0..MaxRows} \cup {FirstRows(CensusRows, MaxRows)}

\* the values a field of many values is known to take
RegionNames == <<"R03", "R01", "R02", "R04", "R05", "R06", "R07", "R08",
                 "R09", "R10", "R11", "R12", "R13", "R14", "R15", "R16">>

SampleItems == <<
    FieldItem("f1", "Country", "string",
              <<StrCell("D"), StrCell("B"), StrCell("A"), StrCell("C")>>, ""),
    FieldItem("f2", "Population", "number", <<>>, ""),
    FieldItem("f3", "Year", "number", <<NumCell("2021"), NumCell("2019"), NumCell("2020")>>,
              "Year"),
    FieldItem("f4", "Region", "string", [i \in DOMAIN RegionNames |-> StrCell(RegionNames[i])],
              "") >>

\* deleteConceptItemByID: the chart encodings that name the concept stay as they are
deleteConceptItemByID(items, id) == SelectSeq(items, LAMBDA item : item.id # id)

ConceptShelves == {SampleItems, deleteConceptItemByID(SampleItems, "f1")}

\* chart types a chart can carry: catalogue names, and names the catalogue lacks
AsmChartTypes == {"Bar Chart", "Grouped Bar Chart", "Line Chart", "Pyramid Chart",
                  "Linear Regression", "Heat Map", "Custom Area", "Auto", "Table",
                  "Sankey", "bar"}

FieldIDs == {"", "f1", "f2"}

\* what the encoding shelf can leave on one channel
ShelfEncodings ==
    {Encoding(f, a, "", "", "", "") : f \in FieldIDs, a \in {"", "count", "sum"}}
    \cup {Encoding(f, "", s, o, "", "") :
            f \in FieldIDs, s \in {"", "x", SortByBA, "color"}, o \in {"", "descending"}}
    \cup {Encoding(f, "", "", "", st, sc) :
            f \in FieldIDs, st \in {"", "layered"}, sc \in {"", "viridis"}}
    \cup {Encoding(f, "", "", "", "", "") : f \in {"f3", "f4"}}

\* the rest of an encoding map, beside the channel under study
OtherChannels ==
    { <<>>,
      [c \in {"y"} |-> Encoding("f2", "sum", "", "", "", "")],
      [c \in {"column"} |-> Encoding("f3", "", "", "", "", "")],
      [c \in {"column", "row"} |->
          Encoding(IF c = "column" THEN "f3" ELSE "f1", "", "", "", "", "")] }

EncodingMaps ==
    {[c \in {ch} |-> e] @@ rest :
        ch \in {"x", "color"}, e \in ShelfEncodings, rest \in OtherChannels}

\* a limit on nominal values that the sample rows can exceed
SmallMaxNominalValues == 1

\* the chart types that are also called with the small limit
SmallLimitChartTypes == {"Bar Chart", "Heat Map"}

AsmInputs ==
    [chartType : AsmChartTypes, encodingMap : EncodingMaps,
     conceptShelfItems : ConceptShelves, workingTable : WorkingTables,
     maxNominalValues : {DefaultMaxNominalValues}, aggrPreprocessed : BOOLEAN]
    \cup
    [chartType : SmallLimitChartTypes, encodingMap : EncodingMaps,
     conceptShelfItems : {SampleItems}, workingTable : WorkingTables,
     maxNominalValues : {SmallMaxNominalValues}, aggrPreprocessed : {FALSE}]

\* what the caller sees of a call
Outcome(r) == [thrown |-> r.thrown, chartType |-> r.chartType, vgObj |-> r.vgObj,
               values |-> r.values, warnings |-> r.warnings]

\* the call has run: its outcome is with the caller, the catalogue and the
\* caller's arguments are as it left them
called(in, r) ==
    /\ asm' = [pc |-> "done", calls |-> asm.calls + 1, in |-> in, out |-> Outcome(r),
               inputs |-> r.inputs]
    /\ registry' = r.registry

\* a component renders a chart: assembleVegaChart runs on the shared catalogue
assembleVegaChartCall ==
    /\ asm.pc = "idle"
    /\ asm.calls < MaxCalls
    /\ \E in \in AsmInputs : called(in, assembleVegaChart(registry, in))
    /\ UNCHANGED <<storeVars, lineageVars, inferVars, sideVars>>

\* the component has used the outcome
assembleVegaChartReturn ==
    /\ asm.pc = "done"
    /\ asm' = [pc |-> "idle", calls |-> asm.calls]
    /\ UNCHANGED <<registry, storeVars, lineageVars, inferVars, sideVars>>

AsmNext ==
    \/ assembleVegaChartCall
    \/ assembleVegaChartReturn

SpecAsm == Init /\ [][AsmNext]_vars

\* ------------------------------------------------ claims on the assembler
\* what a call on the catalogue as shipped gives
Pristine(in) == Outcome(assembleVegaChart(CHART_TEMPLATES, in))

\* the encoding map with the entry of one channel taken out
Without(encodingMap, ch) == [c \in DOMAIN encodingMap \ {ch} |-> encodingMap[c]]

Registered(chartType) == \E i \in DOMAIN CHART_TEMPLATES : CHART_TEMPLATES[i].chart = chartType

\* C4: a call whose chartType is not "Table" and names no template of the
\* catalogue throws and hands back no spec.
C4_UnknownChartTypeThrows ==
    (asm.pc = "done" /\ asm.in.chartType # "Table" /\ ~Registered(asm.in.chartType))
        => (asm.out.thrown /\ asm.out.vgObj = UndefinedSpec)

\* a call with a chart type outside the catalogue has thrown
C4_Witness ==
    /\ asm.pc = "done"
    /\ asm.in.chartType = "Sankey"
    /\ "x" \in DOMAIN asm.in.encodingMap
    /\ asm.in.encodingMap["x"].fieldID = "f2"
    /\ asm.out.thrown

\* C5: whatever calls came before, the catalogue holds the templates as shipped
\* and every call gives what its arguments alone determine.
C5_CallsLeaveRegistryAlone ==
    /\ registry = CHART_TEMPLATES
    /\ asm.pc = "done" => asm.out = Pristine(asm.in)

\* a second call has run a post-processor that rewrote its spec
C5_Witness ==
    /\ asm.pc = "done"
    /\ asm.calls = 2
    /\ asm.in.chartType = "Pyramid Chart"
    /\ Has(asm.out.vgObj, <<"hconcat", "0", "transform", "0", "filter">>)
    /\ Has(asm.out.vgObj, <<"hconcat", "1", "encoding", "x", "scale", "domain">>)
    /\ ~Has(getChartTemplate(registry, "Pyramid Chart").template, <<"hconcat", "0", "transform">>)

\* C6: an encoding on a channel that the template's channels list does not
\* name changes nothing: the outcome is that of the call without it.
C6_StaleChannelHasNoEffect ==
    (asm.pc = "done" /\ ~asm.out.thrown)
        => \A ch \in DOMAIN asm.in.encodingMap :
              ch \notin Range(getChartChannels(CHART_TEMPLATES, asm.in.chartType))
                  => asm.out = Pristine([asm.in EXCEPT !.encodingMap = Without(@, ch)])

\* C7: an encoding without a field id (a count in preprocessed mode aside)
\* writes nothing: the outcome is that of the call without it.
C7_UnboundEncodingWritesNothing ==
    (asm.pc = "done" /\ ~asm.out.thrown)
        => \A ch \in DOMAIN asm.in.encodingMap :
              (/\ asm.in.encodingMap[ch].fieldID = ""
               /\ ~(asm.in.encodingMap[ch].aggregate = "count" /\ asm.in.aggrPreprocessed))
                  => asm.out = Pristine([asm.in EXCEPT !.encodingMap = Without(@, ch)])

\* the encoding of ch names a field that is not on the concept shelf
Dangling(in, ch) ==
    /\ in.encodingMap[ch].fieldID # ""
    /\ \A i \in DOMAIN in.conceptShelfItems :
          in.conceptShelfItems[i].id # in.encodingMap[ch].fieldID

\* C8: with a field id that names no field, a call on a chart type of the
\* catalogue does not throw and gives what it gives with the field id unset.
C8_DanglingFieldIsUnbound ==
    (asm.pc = "done" /\ (Registered(asm.in.chartType) \/ asm.in.chartType = "Table"))
        => \A ch \in DOMAIN asm.in.encodingMap :
              Dangling(asm.in, ch)
                  => /\ ~asm.out.thrown
                     /\ asm.out = Pristine([asm.in EXCEPT !.encodingMap[ch].fieldID = ""])

\* a bar chart whose x names a deleted field has come out with its y and without x
C8_Witness ==
    /\ asm.pc = "done"
    /\ asm.in.chartType = "Bar Chart"
    /\ "x" \in DOMAIN asm.in.encodingMap
    /\ Dangling(asm.in, "x")
    /\ asm.in.encodingMap["x"].sortBy = ""
    /\ asm.in.encodingMap["x"].sortOrder = ""
    /\ ~asm.out.thrown
    /\ ~Has(asm.out.vgObj, <<"encoding", "x">>)
    /\ Has(asm.out.vgObj, <<"encoding", "y", "field">>)

\* --------------------------------------------------------- type inference
\* at most this many values are in a column whose type is inferred
MaxValues == 2

BoolCell(s) == [t |-> "bool", v |-> s]

\* the values a column of an uploaded table can hold
InferCells ==
    { BoolCell("true"), StrCell("true"), StrCell("false"), NumCell("3"), NumCell("1.5"),
      StrCell("10"), StrCell("1.5"), StrCell("2020-01-01"), StrCell("A"), StrCell(""), NullCell }

\* the columns up to MaxValues long
InferColumns == UNION {[1..n -> InferCells] : n \in 0..MaxValues}

\* the numeric texts Date.parse() accepts in an engine that reads them as a
\* month or a month and a day; the language leaves texts outside the ISO
\* format to the engine
LegacyDateTexts == {"1.5", "3", "5", "7", "10"}

\* the numeric texts that stand for whole numbers
IntegerTexts == NumericTexts \ {"1.5"}

\* v === 'true' || v === 'false' || typeof v === 'boolean'
testBoolean(c) == c.t = "bool" \/ (c.t = "str" /\ c.v \in {"true", "false"})

\* v === true || v === false
isBoolean(c) == c.t = "bool"

\* !isNaN(Number(v)) && isFinite(Number(v)); !isNaN(+v): null, '' and booleans
\* convert to 0 and 1
testNumber(c) ==
    c.t \in {"num", "bool", "null"} \/ (c.t = "str" /\ c.v \in NumericTexts \cup {""})

\* testNumber(v) && (v = +v) === ~~v
testInteger(c) ==
    c.t \in {"bool", "null"} \/ (c.t \in {"num", "str"} /\ c.v \in IntegerTexts \cup {""})

\* !isNaN(Date.parse(v)), in an engine that accepts the legacy texts or in one
\* that does not
testDate(c, legacy) ==
    c.t \in {"num", "str"} /\ (c.v \in DateTexts \/ (legacy /\ c.v \in LegacyDateTexts))

\* values.filter(v => v != null && v !== '')
nonNullValues(values) ==
    SelectSeq(values, LAMBDA c : c.t \notin {"null", "undefined"} /\ c # StrCell(""))

\* the checks of inferTypeFromValueArray on the values that are left
inferTypeOfPresent(present, legacy) ==
    IF present = <<>> THEN "auto"
    ELSE IF \A i \in DOMAIN present : testBoolean(present[i]) THEN "boolean"
    ELSE IF \A i \in DOMAIN present : testNumber(present[i]) THEN "number"
    ELSE IF \A i \in DOMAIN present : testDate(present[i], legacy) THEN "date"
    ELSE "string"

\* componentTypes: Utility function to infer type from value array
inferTypeFromValueArray(values, legacy) == inferTypeOfPresent(nonNullValues(values), legacy)

\* TestType[type](v)
TestType(type, c, legacy) ==
    IF type = "boolean" THEN testBoolean(c)
    ELSE IF type = "integer" THEN testInteger(c)
    ELSE IF type = "date" THEN testDate(c, legacy)
    ELSE IF type = "number" THEN testNumber(c)
    ELSE TRUE

\* the candidate types, in the order they are tried
TypeCandidates == <<"boolean", "integer", "date", "number", "string">>

\* the candidates left when every type that a value (null aside) fails is
\* spliced out
typesLeft(values, legacy) ==
    SelectSeq(TypeCandidates,
              LAMBDA type : \A i \in DOMAIN values :
                               values[i].t \in {"null", "undefined"}
                               \/ TestType(type, values[i], legacy))

\* table utilities: Infer type from value array; types[0] || Type.String
inferTypeFromValueArrayOfColumn(values, legacy) == typesLeft(values, legacy)[1]

\* data types: Infer type from array of values
testType(values, legacy) ==
    IF values = <<>> THEN "string"
    ELSE IF \A i \in DOMAIN values : isBoolean(values[i]) THEN "boolean"
    ELSE IF \A i \in DOMAIN values : testNumber(values[i]) THEN "number"
    ELSE IF \A i \in DOMAIN values : testDate(values[i], legacy) THEN "date"
    ELSE "string"

\* a column's type is inferred, by each of the three inference functions
inferType ==
    /\ infer.pc = "idle"
    /\ \E values \in InferColumns, legacy \in BOOLEAN :
         infer' = [pc |-> "done", values |-> values, legacy |-> legacy,
                   ofComponentTypes |-> inferTypeFromValueArray(values, legacy),
                   ofColumn |-> inferTypeFromValueArrayOfColumn(values, legacy),
                   ofTestType |-> testType(values, legacy)]
    /\ UNCHANGED <<storeVars, lineageVars, asmVars, sideVars>>

\* the table that asked has its column typed
inferTypeReturn ==
    /\ infer.pc = "done"
    /\ infer' = InferIdle
    /\ UNCHANGED <<storeVars, lineageVars, asmVars, sideVars>>

InferNext ==
    \/ inferType
    \/ inferTypeReturn

SpecInfer == Init /\ [][InferNext]_vars

\* ------------------------------------------- claims on the type inference
\* every value parses as the kind
AllParseAs(kind, present, legacy) ==
    \A i \in DOMAIN present :
        IF kind = "boolean"
        THEN present[i].t = "bool" \/ present[i] \in {StrCell("true"), StrCell("false")}
        ELSE IF kind = "number"
        THEN present[i].t \in {"num", "bool"}
             \/ (present[i].t = "str" /\ present[i].v \in NumericTexts)
        ELSE IF kind = "date"
        THEN present[i].t \in {"num", "str"}
             /\ (present[i].v \in DateTexts \/ (legacy /\ present[i].v \in LegacyDateTexts))
        ELSE TRUE

\* the first of boolean, number, date, string that every value parses as
PriorityKind(present, legacy) ==
    LET kinds == <<"boolean", "number", "date", "string">>
    IN  kinds[CHOOSE i \in 1..4 :
                /\ AllParseAs(kinds[i], present, legacy)
                /\ \A j \in 1..(i - 1) : ~AllParseAs(kinds[j], present, legacy)]

\* a whole number is a number
KindOf(type) == IF type = "integer" THEN "number" ELSE type

\* the types the three inference functions gave the column
InferredTypes == {infer.ofComponentTypes, infer.ofColumn, infer.ofTestType}

\* C11: on a column with a value that is neither null nor empty, each
\* inference function gives the first of boolean, number, date, string that
\* every such value parses as.
C11_PriorityOrder ==
    (infer.pc = "done" /\ nonNullValues(infer.values) # <<>>)
        => \A type \in InferredTypes :
              KindOf(type) = PriorityKind(nonNullValues(infer.values), infer.legacy)

\* C12: on a column that is empty or holds only null and empty values, each
\* inference function gives string.
C12_EmptyIsString ==
    (infer.pc = "done" /\ nonNullValues(infer.values) = <<>>)
        => InferredTypes = {"string"}

\* --------------------------------------------- claims on the colour domain
\* where the template of a chart type takes the color channel
ColorPaths(chartType) == getChartTemplate(CHART_TEMPLATES, chartType).paths["color"]

\* the concept the color channel of the call names, when the shelf has it
ColorField(in) ==
    IF "color" \in DOMAIN in.encodingMap
    THEN findField(in.conceptShelfItems, in.encodingMap["color"].fieldID)
    ELSE findField(in.conceptShelfItems, "")

\* the values of a column that the rows hold
PresentValues(rows, name) == {CellOf(rows[i], name) : i \in DOMAIN rows}

\* the node is the list of the distinct texts of the cells, in ascending order
IsSortedListOf(node, cells) ==
    /\ node.k = "list"
    /\ Range(node.v) = {c.v : c \in cells}
    /\ \A i, j \in DOMAIN node.v : i < j => Rank(node.v[i]) < Rank(node.v[j])

\* a call has put a nominal color channel at the path for a field whose domain
\* is a strict superset of the values the rows hold
NominalColorBeyondRows(p) ==
    /\ asm.pc = "done"
    /\ ~asm.out.thrown
    /\ ColorField(asm.in).found
    /\ isNominalAt(asm.out.vgObj, p)
    /\ PresentValues(asm.in.workingTable, ColorField(asm.in).item.name)
         \subseteq Range(ColorField(asm.in).item.domain)
    /\ PresentValues(asm.in.workingTable, ColorField(asm.in).item.name)
         # Range(ColorField(asm.in).item.domain)

\* C13: on a color channel resolved to nominal, when the field's known domain
\* is a strict superset of the values present in the working rows, the scale's
\* domain is the whole domain in ascending order and the legend's values are
\* the present values in ascending order
C13_ColorDomainAndLegend ==
    asm.pc = "done" =>
        \A p \in Range(ColorPaths(asm.in.chartType)) :
            NominalColorBeyondRows(p) =>
                /\ Has(asm.out.vgObj, p \o <<"scale", "domain">>)
                /\ IsSortedListOf(asm.out.vgObj[p \o <<"scale", "domain">>],
                                  Range(ColorField(asm.in).item.domain))
                /\ Has(asm.out.vgObj, p \o <<"legend", "values">>)
                /\ IsSortedListOf(asm.out.vgObj[p \o <<"legend", "values">>],
                                  PresentValues(asm.in.workingTable,
                                                ColorField(asm.in).item.name))

\* the domain D, B, A, C with rows of A and C only: scale [A, B, C, D], legend [A, C]
C13_Witness ==
    /\ NominalColorBeyondRows(<<"encoding", "color">>)
    /\ asm.in.chartType = "Bar Chart"
    /\ ColorField(asm.in).item.id = "f1"
    /\ asm.in.workingTable = FirstRows(SampleRows, 2)
    /\ asm.out.vgObj[<<"encoding", "color", "scale", "domain">>] = List(<<"A", "B", "C", "D">>)
    /\ asm.out.vgObj[<<"encoding", "color", "legend", "values">>] = List(<<"A", "C">>)

\* ----------------------------------------------- claims on the aggregation
\* the channels of the call that ask for an aggregate and are bound: to a
\* concept of the shelf, or, for a count on aggregated rows, to the count column
AggregatedChannels(in) ==
    {ch \in DOMAIN in.encodingMap :
        /\ in.encodingMap[ch].aggregate # ""
        /\ \/ findField(in.conceptShelfItems, in.encodingMap[ch].fieldID).found
           \/ in.encodingMap[ch].aggregate = "count" /\ in.aggrPreprocessed}

\* the encodings of the assembled spec that a channel of the call has filled
EncodingsOf(in, vg, ch) ==
    {p \in Range(getChartTemplate(CHART_TEMPLATES, in.chartType).paths[ch]) :
        Has(vg, p) /\ vg[p] = Obj}

\* the column of aggregated rows that holds the aggregate of a channel
AggregateColumn(in, ch) ==
    IF in.encodingMap[ch].aggregate = "count" THEN Str("_count")
    ELSE [k |-> "str",
          v |-> <<findField(in.conceptShelfItems, in.encodingMap[ch].fieldID).item.name,
                  "_", in.encodingMap[ch].aggregate>>]

\* no encoding of the spec carries an aggregate operator
NoAggregateOperator(vg) == \A p \in DOMAIN vg : p = <<>> \/ p[Len(p)] # "aggregate"

\* raw mode: the field's own name, and the operator
RawAggregates(in, vg) ==
    \A ch \in AggregatedChannels(in) : \A p \in EncodingsOf(in, vg, ch) :
        /\ Has(vg, p \o <<"field">>)
        /\ vg[p \o <<"field">>]
             = Str(findField(in.conceptShelfItems, in.encodingMap[ch].fieldID).item.name)
        /\ Has(vg, p \o <<"aggregate">>)
        /\ vg[p \o <<"aggregate">>] = Str(in.encodingMap[ch].aggregate)

\* preprocessed mode: the aggregate's column, and no operator anywhere
PreprocessedAggregates(in, vg) ==
    /\ NoAggregateOperator(vg)
    /\ \A ch \in AggregatedChannels(in) : \A p \in EncodingsOf(in, vg, ch) :
            /\ Has(vg, p \o <<"field">>)
            /\ vg[p \o <<"field">>] = AggregateColumn(in, ch)

\* the axes a template's post-processor turns nominal whatever they were
AxesMadeNominal(chartType) ==
    IF chartType = "Heat Map" THEN {<<"encoding", "x">>, <<"encoding", "y">>}
    ELSE IF chartType = "Boxplot" THEN {<<"encoding", "x">>}
    ELSE {}

\* C14 as stated: the two aggregation modes are never mixed in one spec; in
\* preprocessed mode every aggregated channel references <field>_<aggregate>
\* (or the count column) with type quantitative and no encoding carries an
\* operator, in raw mode it keeps the field's name and carries the operator
C14_ModesNeverMixedAllQuantitative ==
    (asm.pc = "done" /\ ~asm.out.thrown) =>
        IF asm.in.aggrPreprocessed
        THEN /\ PreprocessedAggregates(asm.in, asm.out.vgObj)
             /\ \A ch \in AggregatedChannels(asm.in) :
                    \A p \in EncodingsOf(asm.in, asm.out.vgObj, ch) :
                        asm.out.vgObj[p \o <<"type">>] = Str("quantitative")
        ELSE RawAggregates(asm.in, asm.out.vgObj)

\* C14, amended: the same, the type being quantitative except on the axes that
\* the template's post-processor turns nominal, where it is nominal
C14_ModesNeverMixed ==
    (asm.pc = "done" /\ ~asm.out.thrown) =>
        IF asm.in.aggrPreprocessed
        THEN /\ PreprocessedAggregates(asm.in, asm.out.vgObj)
             /\ \A ch \in AggregatedChannels(asm.in) :
                    \A p \in EncodingsOf(asm.in, asm.out.vgObj, ch) :
                        asm.out.vgObj[p \o <<"type">>]
                            = IF p \in AxesMadeNominal(asm.in.chartType)
                              THEN Str("nominal") ELSE Str("quantitative")
        ELSE RawAggregates(asm.in, asm.out.vgObj)

\* a heat map of aggregated rows: x is the sum column, made nominal
C14_Witness ==
    /\ asm.pc = "done"
    /\ asm.in.aggrPreprocessed
    /\ asm.in.chartType = "Heat Map"
    /\ "x" \in AggregatedChannels(asm.in)
    /\ asm.in.encodingMap["x"].aggregate = "sum"
    /\ asm.out.vgObj[<<"encoding", "x", "field">>].v = <<"Population", "_", "sum">>
    /\ asm.out.vgObj[<<"encoding", "x", "type">>] = Str("nominal")

\* --------------------------------------------------- claims on the inputs
\* C15: a call never mutates its inputs: after it the encodingMap, every field
\* (the content and the order of its domain too) and the working rows are as
\* they were before it
C15_InputsNotMutated ==
    asm.pc = "done" =>
        /\ asm.inputs.encodingMap = asm.in.encodingMap
        /\ asm.inputs.conceptShelfItems = asm.in.conceptShelfItems
        /\ asm.inputs.workingTable = asm.in.workingTable

\* a call that sorted a copy of an unsorted domain, reversed a parsed sort list
\* and turned the year column of a copy of the rows into text
C15_Witness ==
    /\ asm.pc = "done"
    /\ ~asm.out.thrown
    /\ asm.in.chartType = "Custom Area"
    /\ sortsDomainOf(asm.in, asm.in.conceptShelfItems[1])
    /\ asm.in.conceptShelfItems[1].domain # SortCells(Range(asm.in.conceptShelfItems[1].domain))
    /\ asm.in.encodingMap["color"].sortBy = SortByBA
    /\ asm.in.encodingMap["color"].sortOrder = "descending"
    /\ asm.out.vgObj[<<"encoding", "color", "sort">>] = List(<<"A", "B">>)
    /\ asm.in.workingTable # <<>>
    /\ asm.out.values # asm.in.workingTable

\* ------------------------------------------------ claims on a bar chart
\* "Bar Chart" in raw mode, x the nominal Country, y the sum of Population,
\* on the rows (A, 10), (A, 5), (B, 7)
CountryBySumOfPopulation ==
    [chartType |-> "Bar Chart",
     encodingMap |-> [c \in {"x", "y"} |->
                        IF c = "x" THEN Encoding("f1", "", "", "", "", "")
                        ELSE Encoding("f2", "sum", "", "", "", "")],
     conceptShelfItems |-> SampleItems,
     workingTable |-> CensusRows,
     maxNominalValues |-> DefaultMaxNominalValues,
     aggrPreprocessed |-> FALSE]

\* C16: that call gives encoding.x = {field: Country, type: nominal},
\* encoding.y = {field: Population, type: quantitative, aggregate: sum}, and
\* data.values equal to the three rows, unchanged
C16_RawBarChart ==
    (asm.pc = "done" /\ asm.in = CountryBySumOfPopulation) =>
        /\ ~asm.out.thrown
        /\ SubTree(asm.out.vgObj, <<"encoding", "x">>)
             = Tree({ << <<>>, Obj >>, << <<"field">>, Str("Country") >>,
                      << <<"type">>, Str("nominal") >> })
        /\ SubTree(asm.out.vgObj, <<"encoding", "y">>)
             = Tree({ << <<>>, Obj >>, << <<"field">>, Str("Population") >>,
                      << <<"type">>, Str("quantitative") >>,
                      << <<"aggregate">>, Str("sum") >> })
        /\ asm.out.values = << CensusRow("A", "10"), CensusRow("A", "5"), CensusRow("B", "7") >>

\* the call has been made, on the three rows
C16_Witness ==
    /\ asm.pc = "done"
    /\ asm.in = CountryBySumOfPopulation
    /\ Len(asm.in.workingTable) = 3
    /\ Has(asm.out.vgObj, <<"encoding", "y", "aggregate">>)
    /\ Len(asm.out.values) = 3

\* --------------------------------------------------- claims on the facets
\* the channel of the call is bound to a concept of the shelf and the template
\* takes it at encoding.<channel>
ResolvedAtEncoding(in, ch) ==
    /\ ch \in DOMAIN in.encodingMap
    /\ findField(in.conceptShelfItems, in.encodingMap[ch].fieldID).found
    /\ <<"encoding", ch>> \in Range(getChartTemplate(CHART_TEMPLATES, in.chartType).paths[ch])

\* C17: when both the row and the column facet channel are resolved on a
\* single-view template, the assembled spec holds one combined facet grid with
\* a fixed column count, and never both a row facet and a column facet
C17_BothFacetsCollapse ==
    (/\ asm.pc = "done"
     /\ ~asm.out.thrown
     /\ ResolvedAtEncoding(asm.in, "row")
     /\ ResolvedAtEncoding(asm.in, "column")) =>
        /\ Has(asm.out.vgObj, <<"encoding", "facet", "columns">>)
        /\ ~(/\ Has(asm.out.vgObj, <<"encoding", "row">>)
             /\ Has(asm.out.vgObj, <<"encoding", "column">>))

\* ---------------------------------------------------- claims on the merge
\* the paths of a channel of the call where the template holds an object, the
\* channel being bound to a concept of the shelf
ObjectTargets(in, ch) ==
    {p \in Range(getChartTemplate(CHART_TEMPLATES, in.chartType).paths[ch]) :
        /\ findField(in.conceptShelfItems, in.encodingMap[ch].fieldID).found
        /\ Has(getChartTemplate(CHART_TEMPLATES, in.chartType).template, p)
        /\ getChartTemplate(CHART_TEMPLATES, in.chartType).template[p] = Obj}

\* what the template holds below a path is in the spec as the template has it
PreSeededKept(template, vg, p) ==
    \A q \in DOMAIN template : IsPrefix(p, q) => (Has(vg, q) /\ vg[q] = template[q])

\* C18: when a channel's configuration is written at a path whose target is
\* an object, every key the template pre-seeded there (a fixed opacity, a
\* reversed scale, a null stack, a null legend) is in the assembled spec with
\* its template value
C18_PreSeededKeysSurvive ==
    (asm.pc = "done" /\ ~asm.out.thrown) =>
        \A ch \in DOMAIN asm.in.encodingMap : \A p \in ObjectTargets(asm.in, ch) :
            PreSeededKept(getChartTemplate(CHART_TEMPLATES, asm.in.chartType).template,
                          asm.out.vgObj, p)

\* ------------------------------------------- claims on many-valued colours
\* C19: on a nominal color channel, when the field's whole domain has at least
\* 16 distinct values, the encoding both makes the legend's symbols and labels
\* small and uses the twenty-colour scheme, also when fewer than 16 of the
\* values are in the working rows
C19_ManyValuesCompactLegendAndScheme ==
    (/\ asm.pc = "done"
     /\ ~asm.out.thrown
     /\ ColorField(asm.in).found
     /\ asm.in.encodingMap["color"].scheme = ""
     /\ Cardinality(Range(ColorField(asm.in).item.domain)) >= ManyColorValues) =>
        \A p \in Range(ColorPaths(asm.in.chartType)) :
            isNominalAt(asm.out.vgObj, p) =>
                /\ Has(asm.out.vgObj, p \o <<"scale", "scheme">>)
                /\ asm.out.vgObj[p \o <<"scale", "scheme">>] = Str("tableau20")
                /\ Has(asm.out.vgObj, p \o <<"legend", "symbolSize">>)
                /\ asm.out.vgObj[p \o <<"legend", "symbolSize">>] = Num("12")
                /\ Has(asm.out.vgObj, p \o <<"legend", "labelFontSize">>)
                /\ asm.out.vgObj[p \o <<"legend", "labelFontSize">>] = Num("8")

\* ------------------------------------------------ claims on the draw order
\* the name of the rank column of a field, as one text
SortIndexColumn ==
    ("Country" :> "color_Country_sort_index")
    @@ ("Population" :> "color_Population_sort_index")
    @@ ("Year" :> "color_Year_sort_index")
    @@ ("Region" :> "color_Region_sort_index")

\* the place of a text in a sort list, counted from 0, and -1 when it is not there
RankIn(list, text) ==
    IF \E i \in DOMAIN list : list[i] = text
    THEN (CHOOSE i \in DOMAIN list : list[i] = text /\ \A j \in 1..(i - 1) : list[j] # text) - 1
    ELSE -1

\* a call has sorted the color channel of a bar or area chart by a value list,
\* the channel being bound to a concept of the shelf
ColorSortedByList ==
    /\ asm.pc = "done"
    /\ ~asm.out.thrown
    /\ ColorField(asm.in).found
    /\ sortListParsed(asm.in.encodingMap["color"])
    /\ isBarOrArea(asm.out.vgObj)

\* C20: when an explicit value list is the sort of the color channel of a bar
\* or area chart, the spec gains a draw-order encoding keyed on a synthesized
\* rank column, and every row of data.values carries that column, holding the
\* rank of the row's value in the sort list
C20_DrawOrderAndRankColumn ==
    ColorSortedByList =>
        /\ Has(asm.out.vgObj, <<"encoding", "order", "field">>)
        /\ asm.out.vgObj[<<"encoding", "order", "field">>].v
             = <<"color_", ColorField(asm.in).item.name, "_sort_index">>
        /\ \A i \in DOMAIN asm.out.values :
              /\ SortIndexColumn[ColorField(asm.in).item.name] \in DOMAIN asm.out.values[i]
              /\ asm.out.values[i][SortIndexColumn[ColorField(asm.in).item.name]].t = "num"
              /\ \E rank \in -1..Len(SortLists[asm.in.encodingMap["color"].sortBy]) :
                    /\ rank = RankIn(SortLists[asm.in.encodingMap["color"].sortBy],
                                     CellOf(asm.in.workingTable[i],
                                            ColorField(asm.in).item.name).v)
                    /\ NumberOf[asm.out.values[i][SortIndexColumn[
                                     ColorField(asm.in).item.name]].v] = rank

\* ------------------------------------------------- claims on the warnings
\* the channel of the call is bound to a concept that the template takes, its
\* resolved type is nominal and the rows hold more distinct values of it than
\* maxNominalValues
TooManyNominalValues(in, ch) ==
    /\ findField(in.conceptShelfItems, in.encodingMap[ch].fieldID).found
    /\ getChartTemplate(CHART_TEMPLATES, in.chartType).paths[ch] # <<>>
    /\ fieldType(ch, in.encodingMap[ch],
                 findField(in.conceptShelfItems, in.encodingMap[ch].fieldID).item,
                 in.workingTable, in.aggrPreprocessed) = "nominal"
    /\ Cardinality(PresentValues(in.workingTable,
                       findField(in.conceptShelfItems, in.encodingMap[ch].fieldID).item.name))
         > in.maxNominalValues

\* C21: for every channel resolved to nominal whose distinct values in the
\* rows are more than maxNominalValues, whichever channel it is (color, and a
\* column facet turned into a facet grid, too), the call warns about the
\* channel and still returns the spec
C21_EveryNominalChannelWarned ==
    asm.pc = "done" =>
        \A ch \in DOMAIN asm.in.encodingMap :
            (Registered(asm.in.chartType) /\ TooManyNominalValues(asm.in, ch)) =>
                /\ ~asm.out.thrown
                /\ asm.out.vgObj # UndefinedSpec
                /\ ch \in asm.out.warnings

\* ------------------------------------------------- the chart thumbnail
\* the thumbnail keeps at most this many rows (5000 in ChartElementFC; the
\* modelled tables are small)
ThumbnailRowLimit == 3

\* at most this many rows are in the table of a thumbnail
MaxThumbnailRows == 5

\* Math.floor((i + 1) * getRandom(233 * i + 888)) for i = 0, 1, 2, ...
\* with getRandom(seed) = the fraction of Math.sin(seed) * 10000
ShuffleIndex == <<0, 1, 0, 1, 0, 4, 0, 7, 3>>

\* the tables a thumbnail is rendered from: rows may repeat
ThumbnailTables ==
    UNION {[1..n -> {SampleRows[1], SampleRows[2]}] : n \in 0..MaxThumbnailRows}

\* the chart of the thumbnail, on a table
ThumbnailChart(tableRows) ==
    [chartType |-> "Bar Chart",
     encodingMap |-> [c \in {"x"} |-> Encoding("f1", "", "", "", "", "")],
     conceptShelfItems |-> SampleItems,
     workingTable |-> tableRows,
     maxNominalValues |-> DefaultMaxNominalValues,
     aggrPreprocessed |-> FALSE]

\* mutant: the element picked is copied over the last one, which is lost
shuffleOverwriting(shuffled, i) ==
    [shuffled EXCEPT ![i] = shuffled[ShuffleIndex[i] + 1]]

\* one turn of `while (i--)`: shuffled[index] and shuffled[i] change places
swapTurn(shuffled, i) ==
    [shuffled EXCEPT ![ShuffleIndex[i] + 1] = shuffled[i],
                     ![i] = shuffled[ShuffleIndex[i] + 1]]

\* the loop of getRandomSubarray, i turns of it left
RECURSIVE shuffle(_, _)
shuffle(shuffled, i) ==
    IF i = 0 THEN shuffled ELSE shuffle(swapTurn(shuffled, i), i - 1)

\* getRandomSubarray(arr, size)
getRandomSubarray(arr, size) == SubSeq(shuffle(arr, Len(arr)), 1, size)

\* Temporary fix, down sample the dataset: data.values of the thumbnail
thumbnailValues(values) ==
    IF Len(values) > ThumbnailRowLimit
    THEN getRandomSubarray(values, ThumbnailRowLimit)
    ELSE values

\* the suffixes (Math.random() + 1).toString(36).substring(7) can give
ElementSuffixes == {"k3x", "9qz"}

\* ChartElementFC renders the thumbnail of a chart on a table
renderThumbnail ==
    /\ thumb.pc = "idle"
    /\ \E tableRows \in ThumbnailTables, suffix \in ElementSuffixes :
         thumb' = [pc |-> "rendered", tableRows |-> tableRows, id |-> suffix,
                   values |-> assembleVegaChart(registry, ThumbnailChart(tableRows)).values,
                   payload |-> thumbnailValues(
                       assembleVegaChart(registry, ThumbnailChart(tableRows)).values)]
    /\ UNCHANGED <<storeVars, lineageVars, asmVars, inferVars, sse, api>>

\* the component renders again, chart and table being the same
renderThumbnailAgain ==
    /\ thumb.pc = "rendered"
    /\ \E suffix \in ElementSuffixes :
         thumb' = [pc |-> "rendered again", tableRows |-> thumb.tableRows, id |-> suffix,
                   values |-> thumb.values, payload |-> thumb.payload,
                   payloadAgain |-> thumbnailValues(
                       assembleVegaChart(registry, ThumbnailChart(thumb.tableRows)).values)]
    /\ UNCHANGED <<storeVars, lineageVars, asmVars, inferVars, sse, api>>

\* the component is unmounted
unmountThumbnail ==
    /\ thumb.pc # "idle"
    /\ thumb' = ThumbIdle
    /\ UNCHANGED <<storeVars, lineageVars, asmVars, inferVars, sse, api>>

ThumbNext ==
    \/ renderThumbnail
    \/ renderThumbnailAgain
    \/ unmountThumbnail

SpecThumb == Init /\ [][ThumbNext]_vars

\* ------------------------------------------------ claims on the thumbnail
\* the rows of the payload come from positions of the values, no position twice
FromDistinctPositions(payload, values) ==
    \E pos \in [DOMAIN payload -> DOMAIN values] :
        /\ \A i, j \in DOMAIN payload : i # j => pos[i] # pos[j]
        /\ \A i \in DOMAIN payload : payload[i] = values[pos[i]]

C23_DeriveSourcesPresent ==
    \A t \in Range(tables) : t.derive.present => t.derive.source \subseteq TableIds(tables)

\* C24: every chart being added on a table that exists at that moment, after
\* any sequence of deleteChart, deleteTable and clearUnReferencedTables the
\* tableRef of every remaining chart names a table of the table set
C24_ChartTablesPresent ==
    \A c \in Range(charts) : c.tableRef \in TableIds(tables)

\* deleting a chart has removed a table by cascade while another chart remains
C24_Witness ==
    /\ lastOp.op = "deleteChart"
    /\ lastOp.removed # {}
    /\ charts # <<>>
    /\ \E t \in Range(tables) : t.derive.present /\ ~t.anchored

\* ------------------------------------------------- claims on the focus
\* C25: the chart focus being undefined or on an existing chart at the start,
\* after any sequence of deleteChart and deleteTable it is undefined or the id
\* of a chart of the chart set, and a delete leaves it undefined only if no
\* chart remains or none was focused
C25_ChartFocusOnExistingChart ==
    /\ focusedChartId = NoId \/ focusedChartId \in ChartIds(charts)
    /\ (lastOp.op \in {"deleteChart", "deleteTable"} /\ focusedChartId = NoId)
         => (charts = <<>> \/ lastOp.focusWas = NoId)

\* the focused chart has been deleted and the focus is on a chart that remains
C25_Witness ==
    /\ lastOp.op = "deleteChart"
    /\ lastOp.focusWas = lastOp.arg
    /\ focusedChartId # NoId
    /\ focusedChartId \in ChartIds(charts)

\* C26: after any focus changes to existing tables and charts, and any
\* deletions, the focused table id is undefined or names a table of the store.
C26_TableFocusOnExistingTable ==
    focusedTableId = NoId \/ focusedTableId \in TableIds(tables)

(***************************************************************************)
(* The SSE client (sseClient.ts).  An EventSource is a record of its       *)
(* readyState and of whether a close event for it is still to be           *)
(* delivered; the client holds the index of its current EventSource        *)
(* (NoSource = null), the handle of the timer it last scheduled            *)
(* (NoTimer = null), and its counters and flags.  timers is the set of     *)
(* timeouts of the event loop that have neither fired nor been cleared.    *)
(* stopped and last are history: whether disconnect() or destroy() has     *)
(* returned with no connect() call since, and what the last step did.      *)
(***************************************************************************)
MaxSources == 3

MaxTimers == 3

ReconnectAttempts == 2

NoSource == 0

NoTimer == 0

NothingDone == [step |-> "new", created |-> FALSE, asked |-> FALSE, countWas |-> 0, timersWas |-> 0]

\* constructor: dispatch is optional; the URL is an option of the caller
SSEClient(dispatch, urlParses) ==
    [pc |-> "made", dispatch |-> dispatch, urlParses |-> urlParses,
     sources |-> <<>>, eventSource |-> NoSource,
     timers |-> {}, timersMade |-> 0, reconnectTimer |-> NoTimer,
     reconnectCount |-> 0, isConnecting |-> FALSE, isDestroyed |-> FALSE,
     status |-> "none", stopped |-> FALSE, last |-> NothingDone]

\* dispatch(setSSEConnectionStatus(status)) when a dispatch is held
setSSEConnectionStatus(c, status) ==
    IF c.dispatch THEN [c EXCEPT !.status = status] ELSE c

reachedLimitLate(c) == c.reconnectCount > ReconnectAttempts

reachedLimit(c) == c.reconnectCount >= ReconnectAttempts

scheduleReconnect(c) ==
    IF c.isDestroyed THEN c
    ELSE LET asked == [c EXCEPT !.last.asked = TRUE,
                                !.last.countWas = c.reconnectCount,
                                !.last.timersWas = c.timersMade]
         IN  IF reachedLimit(c)
             THEN setSSEConnectionStatus(asked, "failed")
             ELSE [asked EXCEPT !.reconnectCount = @ + 1,
                                !.timersMade = @ + 1,
                                !.timers = @ \cup {c.timersMade + 1},
                                !.reconnectTimer = c.timersMade + 1]

\* new EventSource(url) throws on a URL that does not parse
connect(c) ==
    IF c.isDestroyed THEN c
    ELSE IF c.eventSource # NoSource \/ c.isConnecting THEN c
    ELSE IF c.urlParses
         THEN [c EXCEPT !.isConnecting = TRUE,
                        !.sources = Append(@, [readyState |-> "CONNECTING", closeDue |-> FALSE]),
                        !.eventSource = Len(c.sources) + 1,
                        !.last.created = TRUE]
         ELSE scheduleReconnect([c EXCEPT !.isConnecting = FALSE])

\* EventSource.close(): the source delivers no event afterwards
close(sources, i) ==
    IF i = NoSource THEN sources
    ELSE [sources EXCEPT ![i] = [readyState |-> "CLOSED", closeDue |-> FALSE]]

disconnect(c) ==
    [c EXCEPT !.timers = @ \ {c.reconnectTimer},
              !.reconnectTimer = NoTimer,
              !.sources = close(@, c.eventSource),
              !.eventSource = NoSource,
              !.isConnecting = FALSE,
              !.reconnectCount = 0]

destroy(c) ==
    [disconnect([c EXCEPT !.isDestroyed = TRUE]) EXCEPT !.dispatch = FALSE]

onopen(c) ==
    setSSEConnectionStatus([c EXCEPT !.isConnecting = FALSE, !.reconnectCount = 0],
                           "connected")

\* the handler reads the readyState of the client's current EventSource
onerror(c) ==
    LET heard == [c EXCEPT !.isConnecting = FALSE]
    IN  IF c.eventSource # NoSource /\ c.sources[c.eventSource].readyState = "CLOSED"
        THEN scheduleReconnect(setSSEConnectionStatus(heard, "disconnected"))
        ELSE heard

onclose(c) ==
    scheduleReconnect(setSSEConnectionStatus([c EXCEPT !.isConnecting = FALSE],
                                             "disconnected"))

\* the callback of the timeout set by scheduleReconnect
reconnectTimeout(c) ==
    connect([c EXCEPT !.reconnectTimer = NoTimer, !.eventSource = NoSource])

Step(c, step) == [c EXCEPT !.last = [NothingDone EXCEPT !.step = step]]

WithinSseBounds ==
    /\ sse.pc = "made"
    /\ Len(sse.sources) < MaxSources
    /\ sse.timersMade < MaxTimers

newSSEClient ==
    /\ sse.pc = "none"
    /\ \E dispatch \in BOOLEAN, urlParses \in BOOLEAN :
         sse' = SSEClient(dispatch, urlParses)
    /\ UNCHANGED <<storeVars, lineageVars, asmVars, inferVars, thumb, api>>

callConnect ==
    /\ WithinSseBounds
    /\ sse' = connect([Step(sse, "connect") EXCEPT !.stopped = sse.isDestroyed])
    /\ UNCHANGED <<storeVars, lineageVars, asmVars, inferVars, thumb, api>>

callDisconnect ==
    /\ sse.pc = "made"
    /\ sse' = [disconnect(Step(sse, "disconnect")) EXCEPT !.stopped = TRUE]
    /\ UNCHANGED <<storeVars, lineageVars, asmVars, inferVars, thumb, api>>

callDestroy ==
    /\ sse.pc = "made"
    /\ sse' = [destroy(Step(sse, "destroy")) EXCEPT !.stopped = TRUE]
    /\ UNCHANGED <<storeVars, lineageVars, asmVars, inferVars, thumb, api>>

\* the connection of a source is established
sourceOpens ==
    /\ sse.pc = "made"
    /\ \E i \in DOMAIN sse.sources :
         /\ sse.sources[i].readyState = "CONNECTING"
         /\ sse' = onopen([Step(sse, "open") EXCEPT !.sources[i].readyState = "OPEN"])
    /\ UNCHANGED <<storeVars, lineageVars, asmVars, inferVars, thumb, api>>

\* the connection of a source is lost and the source itself tries again
sourceRetries ==
    /\ WithinSseBounds
    /\ \E i \in DOMAIN sse.sources :
         /\ sse.sources[i].readyState # "CLOSED"
         /\ sse' = onerror([Step(sse, "error") EXCEPT !.sources[i].readyState = "CONNECTING"])
    /\ UNCHANGED <<storeVars, lineageVars, asmVars, inferVars, thumb, api>>

\* the connection of a source fails for good
sourceFails ==
    /\ WithinSseBounds
    /\ \E i \in DOMAIN sse.sources :
         /\ sse.sources[i].readyState # "CLOSED"
         /\ sse' = onerror([Step(sse, "error") EXCEPT
                               !.sources[i] = [readyState |-> "CLOSED", closeDue |-> TRUE]])
    /\ UNCHANGED <<storeVars, lineageVars, asmVars, inferVars, thumb, api>>

\* the close event of a source whose connection failed
sourceCloseEvent ==
    /\ WithinSseBounds
    /\ \E i \in DOMAIN sse.sources :
         /\ sse.sources[i].closeDue
         /\ sse' = onclose([Step(sse, "close") EXCEPT !.sources[i].closeDue = FALSE])
    /\ UNCHANGED <<storeVars, lineageVars, asmVars, inferVars, thumb, api>>

timerFires ==
    /\ WithinSseBounds
    /\ \E t \in sse.timers :
         sse' = reconnectTimeout([Step(sse, "timer") EXCEPT !.timers = @ \ {t}])
    /\ UNCHANGED <<storeVars, lineageVars, asmVars, inferVars, thumb, api>>

SseNext ==
    \/ newSSEClient
    \/ callConnect
    \/ callDisconnect
    \/ callDestroy
    \/ sourceOpens
    \/ sourceRetries
    \/ sourceFails
    \/ sourceCloseEvent
    \/ timerFires

SpecSse == Init /\ [][SseNext]_vars

(***************************************************************************)
(* claims on the SSE client                                                *)
(***************************************************************************)

\* C27: once disconnect() or destroy() has returned, no EventSource is
\* created until connect() is called again, and none after destroy(): no
\* reconnect timer scheduled before the call fires into a new connection,
\* also when an error event and a close event came for one lost connection.
C27_NoConnectionAfterStop ==
    sse.pc = "made" => ~(sse.stopped /\ sse.last.created)

NotClosed(sources) == {i \in DOMAIN sources : sources[i].readyState # "CLOSED"}

\* C28: at any time at most one EventSource of the client is not closed.
C28_OneLiveEventSource ==
    sse.pc = "made" => Cardinality(NotClosed(sse.sources)) <= 1

\* C29: reconnectCount never exceeds reconnectAttempts, and a
\* scheduleReconnect reached with the count at the limit reports 'failed'
\* and sets no timer.
C29_ReconnectsBounded ==
    sse.pc = "made" =>
        /\ sse.reconnectCount <= ReconnectAttempts
        /\ (sse.last.asked /\ sse.last.countWas >= ReconnectAttempts) =>
              /\ sse.timersMade = sse.last.timersWas
              /\ sse.dispatch => sse.status = "failed"

\* a failing connection has used the last attempt and the failure is reported
C29_Witness ==
    /\ sse.pc = "made"
    /\ sse.last.asked
    /\ sse.last.countWas = ReconnectAttempts
    /\ sse.status = "failed"
    /\ sse.urlParses

(***************************************************************************)
(* The API client (APIClient.request and its get/post/put/delete).  A      *)
(* request is followed through its awaits: the fetch, then the reading of  *)
(* the body.  What fetch gives is the environment's choice: an abort by    *)
(* the timeout, a network error, or a response with a status and a body.   *)
(* A body is a JSON object, a JSON object with a detail key, the JSON      *)
(* null, or a text that is no JSON (an empty body included).               *)
(***************************************************************************)
RequestTimeoutStatus == 408

NetworkErrorStatus == 0

Methods == {"GET", "POST", "PUT", "DELETE"}

Statuses == {200, 204, 404, 500}

Bodies == {"object", "detail", "null", "unparseable"}

FetchOutcomes ==
    {[kind |-> "abort"], [kind |-> "networkError"]}
        \cup [kind : {"response"}, status : Statuses, body : Bodies]

\* response.ok
ok(response) == response.status >= 200 /\ response.status <= 299

APIError(status) == [type |-> "APIError", status |-> status]

\* response.json(): a promise of the parsed body, rejected with a SyntaxError
json(response) ==
    IF response.body = "unparseable"
    THEN [rejected |-> TRUE, error |-> "SyntaxError"]
    ELSE [rejected |-> FALSE, value |-> response.body]

\* response.json().catch(() => ({}))
errorDataOf(response) ==
    IF json(response).rejected THEN "object" ELSE json(response).value

\* the catch block of request, given what was thrown inside the try block
caught(error) ==
    IF error.type = "APIError" THEN error
    ELSE IF error.type = "AbortError" THEN APIError(RequestTimeoutStatus)
    ELSE APIError(NetworkErrorStatus)

\* the throw of the not-ok branch: reading errorData.detail of null throws
notOkThrown(response) ==
    IF errorDataOf(response) = "null"
    THEN [type |-> "TypeError"]
    ELSE APIError(response.status)

\* the promise request returns once the body of an ok response is read:
\* the promise of response.json() is returned out of the try block unawaited
bodyReturned(response) ==
    IF json(response).rejected
    THEN [type |-> json(response).error]
    ELSE [type |-> "value"]

\* get, post, put and delete hand their endpoint and options to request
requestCall ==
    /\ api.pc = "idle"
    /\ \E method \in Methods, withData \in BOOLEAN :
         api' = [pc |-> "fetch", method |-> method, withData |-> withData,
                 outcome |-> [kind |-> "pending"], result |-> [type |-> "pending"]]
    /\ UNCHANGED <<storeVars, lineageVars, asmVars, inferVars, thumb, sse>>

\* await fetch(...) settles; request runs to its next await or to its end
fetchSettles ==
    /\ api.pc = "fetch"
    /\ \E outcome \in FetchOutcomes :
         api' = IF outcome.kind = "abort"
                THEN [api EXCEPT !.pc = "settled", !.outcome = outcome,
                                 !.result = caught([type |-> "AbortError"])]
                ELSE IF outcome.kind = "networkError"
                THEN [api EXCEPT !.pc = "settled", !.outcome = outcome,
                                 !.result = caught([type |-> "TypeError"])]
                ELSE [api EXCEPT !.pc = "body", !.outcome = outcome]
    /\ UNCHANGED <<storeVars, lineageVars, asmVars, inferVars, thumb, sse>>

\* the body of the response has been read
bodySettles ==
    /\ api.pc = "body"
    /\ api' = [api EXCEPT !.pc = "settled",
                          !.result = IF ok(api.outcome)
                                     THEN bodyReturned(api.outcome)
                                     ELSE caught(notOkThrown(api.outcome))]
    /\ UNCHANGED <<storeVars, lineageVars, asmVars, inferVars, thumb, sse>>

\* the caller has its value or its error
requestReturn ==
    /\ api.pc = "settled"
    /\ api' = ApiIdle
    /\ UNCHANGED <<storeVars, lineageVars, asmVars, inferVars, thumb, sse>>

ApiNext ==
    \/ requestCall
    \/ fetchSettles
    \/ bodySettles
    \/ requestReturn

SpecApi == Init /\ [][ApiNext]_vars

(***************************************************************************)
(* claims on the API client                                                *)
(***************************************************************************)

\* the status the error of a failed request is to carry
StatusDue(outcome) ==
    IF outcome.kind = "abort" THEN RequestTimeoutStatus
    ELSE IF outcome.kind = "response" /\ ~ok(outcome) THEN outcome.status
    ELSE NetworkErrorStatus

\* C30: a request that fails reaches its caller as an APIError and nothing
\* else: with status 408 after the timeout, with the HTTP status of a
\* response that is not ok, with status 0 otherwise, an ok response with a
\* body that does not parse included.
C30_FailuresAreAPIErrors ==
    (api.pc = "settled" /\ api.result.type # "value") =>
        /\ api.result.type = "APIError"
        /\ api.result.status = StatusDue(api.outcome)

====
